---- MODULE Spec2Model ----
(***************************************************************************)
(* A model of the three-stage food-delivery data generator                 *)
(*   src/data generation/generate_data_01.py  (Stage 1: users, referrals,  *)
(*                                             restaurants, menu)          *)
(*   src/data generation/generate_data_02.py  (Stage 2: orders, tracking,  *)
(*                                             reviews)                    *)
(*   src/data generation/generate_data_03.py  (Stage 3: sessions, carts)   *)
(*                                                                         *)
(* Each stage is a one-shot batch script.  A loop iteration of the source  *)
(* is one action; a random draw is a choice among the outcomes the draw    *)
(* can have.  Dates are day offsets from the configured start date, times  *)
(* are minutes from midnight of the start date, money is in paise          *)
(* (1/100 rupee).  Columns that only the fake-value provider fills         *)
(* (names, addresses, e-mails, ...) are left out of the rows.              *)
(***************************************************************************)
EXTENDS Integers, Sequences, FiniteSets, TLC

VARIABLES
    \* the two seeded generators of a process: `random` and `np.random`
    random_state, np_random_state,
    \* the files of the two directories the scripts use, the working
    \* directory of the process, the files as the run found them
    fs, cwd, fs_start,
    \* the run of a stage that is under way (1 or 2) and what the first run
    \* left behind
    run, first_run,
    \* Stage 1 (generate_data_01.py)
    pc1, num_users, current_date1, signup_dates, user_i, users_data, users_df,
    users_with_channel_5, ref_pos, referrals_data,
    restaurant_i, restaurants_data, menu_pos, menu_data,
    \* Stage 2 (generate_data_02.py)
    pc2, error2, config2, users_df2, restaurants_df2, menu_df2,
    power_users, weekend_users, bot_users, regular_users,
    current_date2, iter_left, orders_data, order_items_data, order_id, order_item_id,
    bot_pos, bot_date, bot_left,
    orders_df, order_items_df, delivery_pos, delivery_data,
    reviewed_orders, review_pos, reviews_data,
    \* Stage 3 (generate_data_03.py)
    pc3, error3, users_df3, restaurants_df3, menu_df3, orders_df3, order_items_df3,
    session_pos, sessions_left, sessions,
    cart_pos, abandoned_left, cart

rngVars == <<random_state, np_random_state>>
files == <<fs, cwd, fs_start>>
runs == <<run, first_run>>
users1 == <<num_users, current_date1, signup_dates, user_i, users_data,
            users_df, users_with_channel_5, ref_pos, referrals_data>>
later1 == <<restaurant_i, restaurants_data, menu_pos, menu_data>>
vars1 == <<pc1, users1, later1>>
inputs2 == <<config2, users_df2, restaurants_df2, menu_df2>>
cohorts == <<power_users, weekend_users, bot_users, regular_users>>
tables2 == <<orders_data, order_items_data, order_id, order_item_id>>
loops2 == <<current_date2, iter_left, bot_pos, bot_date, bot_left>>
returned2 == <<orders_df, order_items_df>>
tracking == <<delivery_pos, delivery_data>>
reviews == <<reviewed_orders, review_pos, reviews_data>>
vars2 == <<pc2, error2, inputs2, cohorts, tables2, loops2, returned2, tracking, reviews>>
inputs3 == <<users_df3, restaurants_df3, menu_df3, orders_df3, order_items_df3>>
sessions3 == <<session_pos, sessions_left, sessions>>
carts3 == <<cart_pos, abandoned_left, cart>>
vars3 == <<pc3, error3, inputs3, sessions3, carts3>>
vars == <<rngVars, files, runs, vars1, vars2, vars3>>
\* what generate_users and add_referrals leave alone
outside1 == <<files, runs, later1, vars2, vars3>>
\* what the functions of a stage leave alone: the files, and the other
\* stages, which are other processes
outside2 == <<files, runs, vars1, vars3>>
outside3 == <<files, runs, vars1, vars2>>
\* what generate_orders leaves alone until it returns
later2 == <<returned2, tracking, reviews>>

----------------------------------------------------------------------------
(* Bounds of the model.                                                    *)

\* largest configured user count (CONFIG['num_users'], 10000 in the source)
MaxUsers == 3
\* the literal 365 of `num_users // 365`; the padding draw is
\* randint(0, 364) = randint(0, DaysPerYear - 1)
DaysPerYear == 3
\* the literal 30 of `days // 30` (length of a growth block)
DaysPerMonth == 2
\* CONFIG['num_cities'] (50 in the source)
NumCities == 1
\* the literal 25 of bot_users[:25]
HeavyBots == 1
\* the literals 50 and 100 of random.randint(50, 100) orders of a bot's burst
BurstMin == 1
BurstMax == 2
\* rows of the orders tables generate_delivery_tracking is run on
MaxOrderRows == 3
\* CONFIG['num_restaurants'] (500 in the source)
NumRestaurants == 2
\* the literals 20 and 40 of random.randint(20, 40) menu items of a restaurant
MenuMin == 1
MenuMax == 2
\* CONFIG["sessions_per_user_per_month"] (8 in the source)
SessionsPerMonth == 2
\* orders of the tables generate_cart_items is run on
MaxCartOrders == 3
\* rows of the orders tables generate_reviews is run on
MaxReviewOrders == 6

----------------------------------------------------------------------------
(* Helpers on sequences (a DataFrame is a sequence of rows).               *)

Range(s) == {s[i] : i \in DOMAIN s}

Min(a, b) == IF a <= b THEN a ELSE b

Max(a, b) == IF a >= b THEN a ELSE b

\* [x] * n
Repeat(x, n) == [k \in 1..n |-> x]

\* s[:n]
Take(s, n) == SubSeq(s, 1, Min(n, Len(s)))

\* s without its i-th element
RemoveAt(s, i) == SubSeq(s, 1, i - 1) \o SubSeq(s, i + 1, Len(s))

None == 0

\* df[df['UserID'] == id].iloc[0]
UserById(df, id) ==
    LET Match(u) == u.UserID = id
    IN  Head(SelectSeq(df, Match))

----------------------------------------------------------------------------
(* The random generators.  random.seed(42) / np.random.seed(42) put a      *)
(* generator in a known state, from which the stream of outcomes is a      *)
(* function of the state (here a small linear congruential generator in    *)
(* place of the Mersenne Twister).  A generator whose state is not known   *)
(* (a function called somewhere in the middle of a stream) can produce     *)
(* any outcome at every draw.                                              *)

Unseeded == [seeded |-> FALSE, state |-> 0]

SeedValue == 42

\* (a seed that is not the same in the two runs)
SeededByRun(n) == [seeded |-> TRUE, state |-> (n + run) % 101]

Seeded(n) == [seeded |-> TRUE, state |-> n % 101]

RngStep(r) == IF r.seeded THEN [r EXCEPT !.state = (3 * @ + 7) % 101] ELSE r

RECURSIVE Advance(_, _)
\* the generator after k draws
Advance(r, k) == IF k = 0 THEN r ELSE Advance(RngStep(r), k - 1)

\* the outcomes the i-th draw from now can have, among the outcomes `seq`
Outcomes(seq, r, i) ==
    IF r.seeded
    THEN {seq[1 + (Advance(r, i - 1).state % Len(seq))]}
    ELSE Range(seq)

\* random.randint(lo, hi): the model explores the two ends of the range
RandInt(lo, hi) == IF lo = hi THEN <<lo>> ELSE <<lo, hi>>

RECURSIVE Sample(_, _, _, _)
\* df.sample(n): the ordered selections of n distinct rows of `seq`, the
\* k-th row of the selection being the (i + k - 1)-th draw from now
Sample(seq, n, r, i) ==
    IF n = 0 THEN {<<>>}
    ELSE UNION { { <<seq[j]>> \o rest : rest \in Sample(RemoveAt(seq, j), n - 1, r, i + 1) }
                 : j \in Outcomes([k \in 1..Len(seq) |-> k], r, i) }

----------------------------------------------------------------------------
(* Stage 1: reference data.                                                *)

\* generate_acquisition_channels: ChannelID is the position in this list
AcquisitionChannels ==
    << "Organic Search", "Google Ads", "Facebook Ads", "Instagram Ads",
       "Referral Program", "App Store Featured", "Email Marketing",
       "Influencer Marketing", "Direct", "YouTube Ads" >>

channels_df == [i \in 1..Len(AcquisitionChannels) |->
                   [ChannelID |-> i, ChannelName |-> AcquisitionChannels[i]]]

\* the ChannelID add_referrals filters on
ReferralChannelID == 5

\* generate_cities: CityID 1..num_cities
cities_df == [i \in 1..NumCities |-> [CityID |-> i]]

\* CONFIG['end_date'] - CONFIG['start_date'] in days: 2024 is a leap year, so
\* 31 December is day 365 = DaysPerYear of the range that starts on day 0
EndDay == DaysPerYear

\* np.random.choice(channels_df['ChannelID'], p=channel_weights): every
\* weight is positive, so every channel can come out; the model explores the
\* first, the referral and the last channel
ChannelOutcomes == <<1, ReferralChannelID, Len(AcquisitionChannels)>>

\* random.uniform(0.7, 1.3), in thousandths
UniformJitter == <<700, 1000, 1300>>

\* base_signups_per_day = num_users // 365
BaseSignupsPerDay(n) == n \div DaysPerYear

\* int(base * (1 + months_passed * 0.03) * jitter)
DailySignups(n, day, jitter) ==
    (BaseSignupsPerDay(n) * (100 + 3 * (day \div DaysPerMonth)) * jitter) \div 100000

\* (a padding draw that overshoots the year: randint(0, 366))
PadOffsetsPastEnd == RandInt(0, DaysPerYear + 1)

\* the padding draw: start_date + timedelta(days=random.randint(0, 364))
PadOffsets == RandInt(0, DaysPerYear - 1)

----------------------------------------------------------------------------
(* Stage 1: generate_users.                                                *)

\* one iteration of `while current_date <= end_date`
SignupDay ==
    /\ pc1 = "signup_schedule"
    /\ current_date1 <= EndDay
    /\ \E jitter \in Outcomes(UniformJitter, random_state, 1) :
          signup_dates' = signup_dates \o
              Repeat(current_date1, DailySignups(num_users, current_date1, jitter))
    /\ current_date1' = current_date1 + 1
    /\ random_state' = Advance(random_state, 1)
    /\ UNCHANGED <<np_random_state, pc1, num_users, user_i, users_data, users_df,
                   users_with_channel_5, ref_pos, referrals_data>>
    /\ UNCHANGED outside1

\* loop exit and signup_dates = signup_dates[:num_users]
SignupTruncate ==
    /\ pc1 = "signup_schedule"
    /\ current_date1 > EndDay
    /\ signup_dates' = Take(signup_dates, num_users)
    /\ user_i' = 1
    /\ pc1' = "users"
    /\ UNCHANGED <<rngVars, num_users, current_date1, users_data, users_df,
                   users_with_channel_5, ref_pos, referrals_data>>
    /\ UNCHANGED outside1

\* one iteration of `for i in range(1, num_users + 1)`
UserRow ==
    /\ pc1 = "users"
    /\ user_i <= num_users
    /\ LET scheduled == user_i - 1 < Len(signup_dates)
           \* draws from `random`: the padding date (only when the schedule
           \* undershoots), LastLoginDate, IsActive, Preferences
           drawn == IF scheduled THEN 3 ELSE 4
       IN  /\ \E city \in Outcomes(cities_df, np_random_state, 1),
                 channel_id \in Outcomes(ChannelOutcomes, np_random_state, 2),
                 pad \in Outcomes(PadOffsets, random_state, 1) :
                 LET signup_date == IF scheduled THEN signup_dates[user_i] ELSE 0 + pad
                 IN  users_data' = Append(users_data,
                        [UserID |-> user_i,
                         CityID |-> city.CityID,
                         SignUpDate |-> signup_date,
                         AcquisitionChannelID |-> channel_id,
                         ReferredBy |-> None])
           /\ random_state' = Advance(random_state, drawn)
           /\ np_random_state' = Advance(np_random_state, 2)
    /\ user_i' = user_i + 1
    /\ UNCHANGED <<pc1, num_users, current_date1, signup_dates, users_df,
                   users_with_channel_5, ref_pos, referrals_data>>
    /\ UNCHANGED outside1

\* return pd.DataFrame(users_data), and the entry of add_referrals:
\* users_with_channel_5 = users_df[users_df['AcquisitionChannelID'] == 5].copy()
UsersReturn ==
    /\ pc1 = "users"
    /\ user_i > num_users
    /\ users_df' = users_data
    /\ LET IsReferral(u) == u.AcquisitionChannelID = ReferralChannelID
       IN  users_with_channel_5' = SelectSeq(users_data, IsReferral)
    /\ ref_pos' = 1
    /\ pc1' = "referrals"
    /\ UNCHANGED <<rngVars, num_users, current_date1, signup_dates, user_i,
                   users_data, referrals_data>>
    /\ UNCHANGED outside1

----------------------------------------------------------------------------
(* Stage 1: add_referrals.                                                 *)

\* users_df[(users_df['SignUpDate'] < user['SignUpDate']) &
\*          (users_df['UserID'] != user['UserID'])]
\* (the same filter without the UserID test and with <= for <)
PotentialReferrersNotStrict(df, user) ==
    LET Earlier(u) == u.SignUpDate <= user.SignUpDate
    IN  SelectSeq(df, Earlier)

PotentialReferrers(df, user) ==
    LET Earlier(u) == u.SignUpDate < user.SignUpDate /\ u.UserID # user.UserID
    IN  SelectSeq(df, Earlier)

\* one iteration of `for idx, user in users_with_channel_5.iterrows()`
ReferralIter ==
    /\ pc1 = "referrals"
    /\ ref_pos <= Len(users_with_channel_5)
    /\ LET user == users_with_channel_5[ref_pos]
           \* the row's index label: rows are labelled 0..n-1 in UserID order
           idx == user.UserID
           potential_referrers == PotentialReferrers(users_df, user)
       IN  IF Len(potential_referrers) > 0
           THEN /\ \E referrer \in Outcomes(potential_referrers, np_random_state, 1) :
                      /\ users_df' = [users_df EXCEPT ![idx].ReferredBy = referrer.UserID]
                      /\ referrals_data' = Append(referrals_data,
                            [ReferralID |-> Len(referrals_data) + 1,
                             ReferrerUserID |-> referrer.UserID,
                             ReferredUserID |-> user.UserID,
                             ReferralDate |-> user.SignUpDate])
                /\ np_random_state' = Advance(np_random_state, 1)
                \* RewardAmount and RewardStatus
                /\ random_state' = Advance(random_state, 2)
           ELSE UNCHANGED <<rngVars, users_df, referrals_data>>
    /\ ref_pos' = ref_pos + 1
    /\ UNCHANGED <<pc1, num_users, current_date1, signup_dates, user_i, users_data,
                   users_with_channel_5>>
    /\ UNCHANGED outside1

\* return users_df, pd.DataFrame(referrals_data)
ReferralsReturn ==
    /\ pc1 = "referrals"
    /\ ref_pos > Len(users_with_channel_5)
    /\ pc1' = "restaurants"
    /\ UNCHANGED <<rngVars, num_users, current_date1, signup_dates, user_i,
                   users_data, users_df, users_with_channel_5, ref_pos, referrals_data>>
    /\ UNCHANGED outside1

----------------------------------------------------------------------------
(* Draws of one step that no branch of the step depends on (the minute of  *)
(* an order, its payment method, ...) are explored together: all at their  *)
(* first outcome or all at their last.  A seeded generator fixes them like *)
(* every other draw.                                                       *)

Dice == 1..2

Joint(seq, r, i, die) ==
    IF r.seeded
    THEN seq[1 + (Advance(r, i - 1).state % Len(seq))]
    ELSE IF die = 1 THEN seq[1] ELSE seq[Len(seq)]

RECURSIVE Draws(_, _, _, _)
\* the outcomes of k successive draws among `seq`, the first being the i-th
\* draw from now
Draws(seq, r, i, k) ==
    IF k = 0 THEN {<<>>}
    ELSE { <<x>> \o rest : x \in Outcomes(seq, r, i), rest \in Draws(seq, r, i + 1, k - 1) }

\* round(num / den) to an integer, Python's round: ties go to the even
RoundHalfEven(num, den) ==
    LET q == num \div den
        r == num % den
    IN  IF 2 * r < den THEN q
        ELSE IF 2 * r > den THEN q + 1
        ELSE IF q % 2 = 0 THEN q ELSE q + 1

RECURSIVE SumSubtotals(_)
\* sum of the Subtotal column of the rows s
SumSubtotals(s) == IF s = <<>> THEN 0 ELSE Head(s).Subtotal + SumSubtotals(Tail(s))

----------------------------------------------------------------------------
(* Stage 2: generate_orders.                                               *)

MinutesPerDay == 1440

\* date.weekday() of day `d` of a range that starts on weekday `start`
\* (Monday = 0)
Weekday(start, d) == (start + d) % 7

\* (a weekend that begins on Friday: weekday() >= 4)
IsWeekendFromFriday(cfg, d) == Weekday(cfg.start_weekday, d) >= 4

\* current_date.weekday() >= 5
IsWeekend(cfg, d) == Weekday(cfg.start_weekday, d) >= 5

\* int(total_users * config[...percentage]), the percentage in hundredths
CohortSize(total_users, percentage) == (total_users * percentage) \div 100

\* (a day's orders growing by whole months: days_passed // 30)
DailyOrdersByWholeMonths(cfg, d) ==
    LET weekend_boost == IF IsWeekend(cfg, d) THEN 14 ELSE 10
    IN  (cfg.target_total_orders * weekend_boost * (100 + 3 * (d \div DaysPerMonth)))
            \div (DaysPerYear * 10 * 100)

\* int(base_daily_orders * [1.4 *] month_factor), with
\* base_daily_orders = target_total_orders / 365 and
\* month_factor = 1 + (days_passed / 30) * 0.03
DailyOrders(cfg, d) ==
    LET weekend_boost == IF IsWeekend(cfg, d) THEN 14 ELSE 10
    IN  (cfg.target_total_orders * weekend_boost * (100 * DaysPerMonth + 3 * d))
            \div (DaysPerYear * 10 * 100 * DaysPerMonth)

\* random.random(), in thousandths: one outcome in each band of
\* get_order_hour_with_peaks
RandomRandom == <<0, 400, 650, 800, 900, 999>>

\* get_order_hour_with_peaks: the outcomes of the second draw, given the first
OrderHourOutcomes(rand) ==
    IF rand < 400 THEN RandInt(19, 22)
    ELSE IF rand < 650 THEN RandInt(12, 15)
    ELSE IF rand < 800 THEN RandInt(16, 18)
    ELSE IF rand < 900 THEN RandInt(8, 11)
    ELSE <<23, 0, 1>>

NumItemsChoices == <<1, 2, 3, 4>>

QuantityChoices == <<1, 1, 1, 2>>

\* random.choice([0, 0, 30, 40, 50, 60]), in paise
DeliveryFeeChoices == <<0, 0, 3000, 4000, 5000, 6000>>

\* random.choice([0, 0, 0.10, 0.15]), in hundredths
DiscountChoices == <<0, 0, 10, 15>>

\* `if total_amount > 500`, in paise
DiscountThreshold == 50000

OrderStatusChoices == <<"Delivered", "Cancelled">>

PaymentMethodChoices == <<"Credit Card", "Debit Card", "UPI", "UPI", "UPI", "Cash on Delivery">>

\* (a subtotal that forgets the quantity)
SubtotalOfOne(item_price, quantity) == item_price

\* subtotal = item_price * quantity
Subtotal(item_price, quantity) == item_price * quantity

\* (a final amount that forgets the delivery fee)
FinalAmountNoFee(total_amount, delivery_fee, discount_amount) ==
    total_amount - discount_amount

\* final_amount = total_amount + delivery_fee - discount_amount
FinalAmount(total_amount, delivery_fee, discount_amount) ==
    total_amount + delivery_fee - discount_amount

\* round(x, 2) of an amount x in paise
Round2(x) == RoundHalfEven(x, 1)

\* df[df['UserID'].isin(ids)] / df[~df['UserID'].isin(ids)]
WithoutUsers(df, ids) ==
    LET Keep(u) == u.UserID \notin Range(ids)
    IN  SelectSeq(df, Keep)

UserIDs(df) == [i \in DOMAIN df |-> df[i].UserID]

\* restaurants_df[(restaurants_df['CityID'] == user_city) & (restaurants_df['IsActive'] == True)]
CityRestaurants(df, user_city) ==
    LET Local(r) == r.CityID = user_city /\ r.IsActive
    IN  SelectSeq(df, Local)

\* restaurants_df[restaurants_df['IsActive'] == True]
ActiveRestaurants(df) ==
    LET Active(r) == r.IsActive
    IN  SelectSeq(df, Active)

\* (a menu taken without the IsAvailable filter)
WholeMenu(df, restaurant) ==
    LET Listed(m) == m.RestaurantID = restaurant.RestaurantID
    IN  SelectSeq(df, Listed)

\* menu_df[(menu_df['RestaurantID'] == restaurant['RestaurantID']) & (menu_df['IsAvailable'] == True)]
RestaurantMenu(df, restaurant) ==
    LET Offered(m) == m.RestaurantID = restaurant.RestaurantID /\ m.IsAvailable
    IN  SelectSeq(df, Offered)

Crash2(exception) ==
    /\ pc2' = "crashed"
    /\ error2' = exception

\* user categorisation, lines 57-76; DataFrame.sample raises ValueError when
\* asked for more rows than the frame has
Segment ==
    /\ pc2 = "segment"
    /\ LET total_users == Len(users_df2)
           num_power_users == CohortSize(total_users, config2.power_user_percentage)
           num_weekend_users == CohortSize(total_users, config2.weekend_only_user_percentage)
           num_bot_users == config2.bot_users_count
       IN  \E power \in Sample(UserIDs(users_df2), num_power_users, np_random_state, 1) :
           LET not_power == WithoutUsers(users_df2, power)
           IN  \E weekend \in Sample(UserIDs(not_power), num_weekend_users,
                                      np_random_state, 1 + num_power_users) :
               LET rest == WithoutUsers(users_df2, power \o weekend)
               IN  IF num_bot_users > Len(rest)
                   THEN /\ Crash2("ValueError: sample(n=num_bot_users)")
                        /\ np_random_state' =
                              Advance(np_random_state, num_power_users + num_weekend_users)
                        /\ UNCHANGED <<cohorts, loops2>>
                   ELSE \E bots \in Sample(UserIDs(rest), num_bot_users, np_random_state,
                                           1 + num_power_users + num_weekend_users) :
                        /\ power_users' = power
                        /\ weekend_users' = weekend
                        /\ bot_users' = bots
                        /\ regular_users' = UserIDs(WithoutUsers(users_df2, power \o weekend \o bots))
                        /\ np_random_state' = Advance(np_random_state,
                              num_power_users + num_weekend_users + num_bot_users)
                        /\ current_date2' = 0
                        /\ pc2' = "day"
                        /\ UNCHANGED <<error2, iter_left, bot_pos, bot_date, bot_left>>
    /\ UNCHANGED <<random_state, inputs2, tables2, outside2, later2>>

\* `while current_date <= config['end_date']`: the day's order count
DayStart ==
    /\ pc2 = "day"
    /\ current_date2 <= config2.end_day
    /\ iter_left' = DailyOrders(config2, current_date2)
    /\ pc2' = "orders"
    /\ UNCHANGED <<rngVars, error2, inputs2, cohorts, tables2, current_date2,
                   bot_pos, bot_date, bot_left, outside2, later2>>

\* one iteration of `for _ in range(daily_orders)`, lines 100-182
OrderIter ==
    /\ pc2 = "orders"
    /\ iter_left > 0
    /\ LET candidates == IF IsWeekend(config2, current_date2)
                         THEN power_users \o weekend_users \o regular_users
                         ELSE power_users \o regular_users
       IN  IF candidates = <<>>
           THEN \* random.choice of an empty list
                /\ Crash2("IndexError: random.choice(users)")
                /\ UNCHANGED <<rngVars, tables2, iter_left>>
           ELSE
           \E user_id \in Outcomes(candidates, random_state, 1), die \in Dice :
           LET user_city == UserById(users_df2, user_id).CityID
               local == CityRestaurants(restaurants_df2, user_city)
               city_restaurants == IF Len(local) = 0
                                   THEN ActiveRestaurants(restaurants_df2)
                                   ELSE local
           IN  IF city_restaurants = <<>>
               THEN \* an empty frame's sample(1)
                    /\ Crash2("ValueError: city_restaurants.sample(1)")
                    /\ random_state' = Advance(random_state, 1)
                    /\ UNCHANGED <<np_random_state, tables2, iter_left>>
               ELSE
               \E restaurant \in Outcomes(city_restaurants, np_random_state, 1) :
               LET rand == Joint(RandomRandom, random_state, 2, die)
                   order_hour == Joint(OrderHourOutcomes(rand), random_state, 3, die)
                   order_minute == Joint(RandInt(0, 59), random_state, 4, die)
                   order_time == current_date2 * MinutesPerDay + order_hour * 60 + order_minute
                   restaurant_menu == RestaurantMenu(menu_df2, restaurant)
               IN  IF Len(restaurant_menu) = 0
                   THEN \* continue
                        /\ random_state' = Advance(random_state, 4)
                        /\ np_random_state' = Advance(np_random_state, 1)
                        /\ iter_left' = iter_left - 1
                        /\ UNCHANGED <<pc2, error2, tables2>>
                   ELSE
                   \E num_items \in Outcomes(NumItemsChoices, np_random_state, 2) :
                   LET n == Min(num_items, Len(restaurant_menu))
                   IN  \E selected_items \in Sample(restaurant_menu, n, np_random_state, 3),
                          quantities \in Draws(QuantityChoices, random_state, 5, n) :
                       LET order_items_for_order ==
                               [k \in 1..n |->
                                   [OrderItemID |-> order_item_id + k - 1,
                                    OrderID |-> order_id,
                                    MenuID |-> selected_items[k].MenuID,
                                    Quantity |-> quantities[k],
                                    ItemPrice |-> selected_items[k].Price,
                                    Subtotal |-> Subtotal(selected_items[k].Price, quantities[k])]]
                           total_amount == SumSubtotals(order_items_for_order)
                           delivery_fee == Joint(DeliveryFeeChoices, random_state, 5 + n, die)
                           discounted == total_amount > DiscountThreshold
                           after == IF discounted THEN 6 + n ELSE 5 + n
                       IN  \E rate \in IF discounted
                                       THEN Outcomes(DiscountChoices, random_state, 6 + n)
                                       ELSE {0} :
                           LET discount_amount == RoundHalfEven(total_amount * rate, 100)
                               final_amount == FinalAmount(total_amount, delivery_fee, discount_amount)
                           IN  /\ orders_data' = Append(orders_data,
                                     [OrderID |-> order_id,
                                      UserID |-> user_id,
                                      RestaurantID |-> restaurant.RestaurantID,
                                      OrderTime |-> order_time,
                                      OrderDate |-> current_date2,
                                      OrderHour |-> order_hour,
                                      TotalAmount |-> Round2(total_amount),
                                      DeliveryFee |-> delivery_fee,
                                      DiscountAmount |-> discount_amount,
                                      FinalAmount |-> Round2(final_amount),
                                      OrderStatus |-> Joint(OrderStatusChoices, random_state, after + 1, die),
                                      PaymentMethod |-> Joint(PaymentMethodChoices, random_state, after + 2, die)])
                               /\ order_items_data' = order_items_data \o order_items_for_order
                               /\ order_item_id' = order_item_id + n
                               /\ order_id' = order_id + 1
                               /\ random_state' = Advance(random_state, after + 2)
                               /\ np_random_state' = Advance(np_random_state, 2 + n)
                               /\ iter_left' = iter_left - 1
                               /\ UNCHANGED <<pc2, error2>>
    /\ UNCHANGED <<inputs2, cohorts, current_date2, bot_pos, bot_date, bot_left, outside2, later2>>

\* current_date += timedelta(days=1)
DayEnd ==
    /\ pc2 = "orders"
    /\ iter_left = 0
    /\ current_date2' = current_date2 + 1
    /\ pc2' = "day"
    /\ UNCHANGED <<rngVars, error2, inputs2, cohorts, tables2, iter_left,
                   bot_pos, bot_date, bot_left, outside2, later2>>

\* the day loop is through
DaysDone ==
    /\ pc2 = "day"
    /\ current_date2 > config2.end_day
    /\ bot_pos' = 1
    /\ pc2' = "bots"
    /\ UNCHANGED <<rngVars, error2, inputs2, cohorts, tables2, current_date2,
                   iter_left, bot_date, bot_left, outside2, later2>>

\* random.randint(0, 300): a burst day within the year
BotDayOffsets == RandInt(0, DaysPerYear - 1)

\* `for bot_user in bot_users[:25]`: the burst day and the size of the burst
BotStart ==
    /\ pc2 = "bots"
    /\ bot_pos <= Len(Take(bot_users, HeavyBots))
    /\ \E offset \in Outcomes(BotDayOffsets, random_state, 1),
          burst \in Outcomes(RandInt(BurstMin, BurstMax), random_state, 2) :
          /\ bot_date' = 0 + offset
          /\ bot_left' = burst
    /\ random_state' = Advance(random_state, 2)
    /\ pc2' = "bot_orders"
    /\ UNCHANGED <<np_random_state, error2, inputs2, cohorts, tables2, current_date2,
                   iter_left, bot_pos, outside2, later2>>

\* (a bot iteration that spends an order id on a restaurant without a menu)
BotOrderIterSpendingIds ==
    /\ pc2 = "bot_orders"
    /\ bot_left > 0
    /\ LET bot_user == bot_users[bot_pos]
       IN  IF restaurants_df2 = <<>>
           THEN /\ Crash2("ValueError: restaurants_df.sample(1)")
                /\ UNCHANGED <<rngVars, tables2, bot_left>>
           ELSE
           \E restaurant \in Outcomes(restaurants_df2, np_random_state, 1), die \in Dice :
           LET restaurant_menu == RestaurantMenu(menu_df2, restaurant)
           IN  IF Len(restaurant_menu) = 0
               THEN \* continue
                    /\ np_random_state' = Advance(np_random_state, 1)
                    /\ bot_left' = bot_left - 1
                    /\ order_id' = order_id + 1
                    /\ UNCHANGED <<random_state, pc2, error2, orders_data,
                                   order_items_data, order_item_id>>
               ELSE
               \E item \in Outcomes(restaurant_menu, np_random_state, 2) :
               LET order_hour == Joint(RandInt(0, 23), random_state, 1, die)
                   order_minute == Joint(RandInt(0, 59), random_state, 2, die)
                   order_time == bot_date * MinutesPerDay + order_hour * 60 + order_minute
                   total_amount == item.Price
               IN  /\ orders_data' = Append(orders_data,
                         [OrderID |-> order_id,
                          UserID |-> bot_user,
                          RestaurantID |-> restaurant.RestaurantID,
                          OrderTime |-> order_time,
                          OrderDate |-> bot_date,
                          OrderHour |-> order_hour,
                          TotalAmount |-> total_amount,
                          DeliveryFee |-> 0,
                          DiscountAmount |-> 0,
                          FinalAmount |-> total_amount,
                          OrderStatus |-> "Delivered",
                          PaymentMethod |-> "UPI"])
                   /\ order_items_data' = Append(order_items_data,
                         [OrderItemID |-> order_item_id,
                          OrderID |-> order_id,
                          MenuID |-> item.MenuID,
                          Quantity |-> 1,
                          ItemPrice |-> item.Price,
                          Subtotal |-> item.Price])
                   /\ order_item_id' = order_item_id + 1
                   /\ order_id' = order_id + 1
                   /\ random_state' = Advance(random_state, 2)
                   /\ np_random_state' = Advance(np_random_state, 2)
                   /\ bot_left' = bot_left - 1
                   /\ UNCHANGED <<pc2, error2>>
    /\ UNCHANGED <<inputs2, cohorts, current_date2, iter_left, bot_pos, bot_date, outside2, later2>>

\* one iteration of `for _ in range(random.randint(50, 100))`, lines 195-238
BotOrderIter ==
    /\ pc2 = "bot_orders"
    /\ bot_left > 0
    /\ LET bot_user == bot_users[bot_pos]
       IN  IF restaurants_df2 = <<>>
           THEN /\ Crash2("ValueError: restaurants_df.sample(1)")
                /\ UNCHANGED <<rngVars, tables2, bot_left>>
           ELSE
           \E restaurant \in Outcomes(restaurants_df2, np_random_state, 1), die \in Dice :
           LET restaurant_menu == RestaurantMenu(menu_df2, restaurant)
           IN  IF Len(restaurant_menu) = 0
               THEN \* continue
                    /\ np_random_state' = Advance(np_random_state, 1)
                    /\ bot_left' = bot_left - 1
                    /\ UNCHANGED <<random_state, pc2, error2, tables2>>
               ELSE
               \E item \in Outcomes(restaurant_menu, np_random_state, 2) :
               LET order_hour == Joint(RandInt(0, 23), random_state, 1, die)
                   order_minute == Joint(RandInt(0, 59), random_state, 2, die)
                   order_time == bot_date * MinutesPerDay + order_hour * 60 + order_minute
                   total_amount == item.Price
               IN  /\ orders_data' = Append(orders_data,
                         [OrderID |-> order_id,
                          UserID |-> bot_user,
                          RestaurantID |-> restaurant.RestaurantID,
                          OrderTime |-> order_time,
                          OrderDate |-> bot_date,
                          OrderHour |-> order_hour,
                          TotalAmount |-> total_amount,
                          DeliveryFee |-> 0,
                          DiscountAmount |-> 0,
                          FinalAmount |-> total_amount,
                          OrderStatus |-> "Delivered",
                          PaymentMethod |-> "UPI"])
                   /\ order_items_data' = Append(order_items_data,
                         [OrderItemID |-> order_item_id,
                          OrderID |-> order_id,
                          MenuID |-> item.MenuID,
                          Quantity |-> 1,
                          ItemPrice |-> item.Price,
                          Subtotal |-> item.Price])
                   /\ order_item_id' = order_item_id + 1
                   /\ order_id' = order_id + 1
                   /\ random_state' = Advance(random_state, 2)
                   /\ np_random_state' = Advance(np_random_state, 2)
                   /\ bot_left' = bot_left - 1
                   /\ UNCHANGED <<pc2, error2>>
    /\ UNCHANGED <<inputs2, cohorts, current_date2, iter_left, bot_pos, bot_date, outside2, later2>>

\* the burst of one bot is through
BotEnd ==
    /\ pc2 = "bot_orders"
    /\ bot_left = 0
    /\ bot_pos' = bot_pos + 1
    /\ pc2' = "bots"
    /\ UNCHANGED <<rngVars, error2, inputs2, cohorts, tables2, current_date2,
                   iter_left, bot_date, bot_left, outside2, later2>>

\* return pd.DataFrame(orders_data), pd.DataFrame(order_items_data)
OrdersReturn ==
    /\ pc2 = "bots"
    /\ bot_pos > Len(Take(bot_users, HeavyBots))
    /\ orders_df' = orders_data
    /\ order_items_df' = order_items_data
    /\ delivery_pos' = 1
    /\ pc2' = "delivery"
    /\ UNCHANGED <<rngVars, error2, inputs2, cohorts, tables2, loops2, delivery_data,
                   reviews, outside2>>

----------------------------------------------------------------------------
(* Stage 2: generate_delivery_tracking.                                    *)

\* random.randint(5, 15): minutes from the order to the dispatch
DispatchDelay == RandInt(5, 15)

\* random.randint(20, 40)
EstimatedMinutes == RandInt(20, 40)

\* (a variation that can undo the whole estimate)
ActualVariationBelowEstimate == RandInt(-45, 15)

\* random.randint(-10, 15)
ActualVariation == RandInt(-10, 15)

\* random.randint(60, 120)
OutlierMinutes == RandInt(60, 120)

\* `random.random() < 0.05`, in thousandths
OutlierThreshold == 50

\* one iteration of `for _, order in orders_df.iterrows()`; the draw of
\* DeliveryPartnerID is made and the column left out
DeliveryIter ==
    /\ pc2 = "delivery"
    /\ delivery_pos <= Len(orders_df)
    /\ LET order == orders_df[delivery_pos]
       IN  IF order.OrderStatus = "Delivered"
           THEN \E die \in Dice,
                   actual_variation \in Outcomes(ActualVariation, random_state, 3),
                   rand \in Outcomes(RandomRandom, random_state, 4) :
                LET dispatch_time == order.OrderTime + Joint(DispatchDelay, random_state, 1, die)
                    estimated_minutes == Joint(EstimatedMinutes, random_state, 2, die)
                    estimated_delivery == dispatch_time + estimated_minutes
                    outlier == rand < OutlierThreshold
                    actual_minutes == IF outlier
                                      THEN Joint(OutlierMinutes, random_state, 5, die)
                                      ELSE estimated_minutes + actual_variation
                    actual_delivery == dispatch_time + actual_minutes
                IN  /\ delivery_data' = Append(delivery_data,
                          [DeliveryID |-> order.OrderID,
                           OrderID |-> order.OrderID,
                           DispatchTime |-> dispatch_time,
                           EstimatedDeliveryTime |-> estimated_delivery,
                           ActualDeliveryTime |-> actual_delivery,
                           ActualDeliveryMinutes |-> actual_minutes,
                           DeliveryStatus |-> "Delivered"])
                    /\ random_state' = Advance(random_state, IF outlier THEN 6 ELSE 5)
           ELSE UNCHANGED <<random_state, delivery_data>>
    /\ delivery_pos' = delivery_pos + 1
    /\ UNCHANGED <<np_random_state, pc2, error2, inputs2, cohorts, tables2, loops2,
                   returned2, reviews, outside2>>

\* return pd.DataFrame(delivery_data)
DeliveryReturn ==
    /\ pc2 = "delivery"
    /\ delivery_pos > Len(orders_df)
    /\ pc2' = "reviews_sample"
    /\ UNCHANGED <<rngVars, error2, inputs2, cohorts, tables2, loops2, returned2,
                   tracking, reviews, outside2>>

----------------------------------------------------------------------------
(* Stage 2: generate_reviews.                                              *)

\* review_rate=0.33, in hundredths
ReviewRate == 33

\* random.randint(0, 7) days
ReviewDelayDays == RandInt(0, 7)

\* np.random.choice([1, 2, 3, 4, 5], p=[...])
RatingChoices == <<1, 2, 3, 4, 5>>

\* `random.random() < 0.7`, in thousandths
CommentThreshold == 700

\* the ten canned comments, by position
NumComments == 10

\* (every order, whatever its status)
AnyStatusOrders(df) == df

\* orders_df[orders_df['OrderStatus'] == 'Delivered']
DeliveredOrders(df) ==
    LET Delivered(o) == o.OrderStatus = "Delivered"
    IN  SelectSeq(df, Delivered)

\* DataFrame.sample(frac=f) takes round(f * len) rows
SampleSize(frac, len) == RoundHalfEven(frac * len, 100)

\* reviewed_orders = orders_df[...].sample(frac=review_rate); the frame of an
\* empty list of orders has no 'OrderStatus' column
ReviewsSample ==
    /\ pc2 = "reviews_sample"
    /\ IF orders_df = <<>>
       THEN /\ Crash2("KeyError: 'OrderStatus'")
            /\ UNCHANGED <<np_random_state, reviews>>
       ELSE LET delivered == DeliveredOrders(orders_df)
                n == SampleSize(ReviewRate, Len(delivered))
            IN  /\ reviewed_orders' \in Sample(delivered, n, np_random_state, 1)
                /\ np_random_state' = Advance(np_random_state, n)
                /\ review_pos' = 1
                /\ pc2' = "reviews"
                /\ UNCHANGED <<error2, reviews_data>>
    /\ UNCHANGED <<random_state, inputs2, cohorts, tables2, loops2, returned2,
                   tracking, outside2>>

\* one iteration of `for _, order in reviewed_orders.iterrows()`
ReviewIter ==
    /\ pc2 = "reviews"
    /\ review_pos <= Len(reviewed_orders)
    /\ LET order == reviewed_orders[review_pos]
       IN  \E die \in Dice, days \in Outcomes(ReviewDelayDays, random_state, 1) :
           LET rating == Joint(RatingChoices, np_random_state, 1, die)
               review_date == order.OrderTime + days * MinutesPerDay
               commented == Joint(RandomRandom, random_state, 2, die) < CommentThreshold
               comment == IF commented
                          THEN Joint([k \in 1..NumComments |-> k], random_state, 3, die)
                          ELSE None
           IN  /\ reviews_data' = Append(reviews_data,
                     [ReviewID |-> review_pos,
                      UserID |-> order.UserID,
                      RestaurantID |-> order.RestaurantID,
                      OrderID |-> order.OrderID,
                      Rating |-> rating,
                      Comment |-> comment,
                      ReviewDate |-> review_date,
                      IsVerifiedPurchase |-> TRUE])
               /\ random_state' = Advance(random_state, IF commented THEN 3 ELSE 2)
               /\ np_random_state' = Advance(np_random_state, 1)
    /\ review_pos' = review_pos + 1
    /\ UNCHANGED <<pc2, error2, inputs2, cohorts, tables2, loops2, returned2,
                   tracking, reviewed_orders, outside2>>

\* return pd.DataFrame(reviews_data)
ReviewsReturn ==
    /\ pc2 = "reviews"
    /\ review_pos > Len(reviewed_orders)
    /\ pc2' = "save"
    /\ UNCHANGED <<rngVars, error2, inputs2, cohorts, tables2, loops2, returned2,
                   tracking, reviews, outside2>>

----------------------------------------------------------------------------
(* Files.  A file is a record of its directory, its name and the table it  *)
(* holds.  The directories are BASE_DIR (the directory of the scripts),    *)
(* BASE_DIR/1_csv_files and some other directory a script can be started   *)
(* from.                                                                   *)

BASE_DIR == "base"

\* os.path.join(BASE_DIR, "1_csv_files"): CSV_DIR of Stage 2, MASTER_DIR of
\* Stage 3
CSV_DIR == "base/1_csv_files"

Dirs == {BASE_DIR, CSV_DIR, "elsewhere"}

File(dir, name, table) == [dir |-> dir, name |-> name, table |-> table]

\* os.path.exists(os.path.join(dir, name))
Exists(f, dir, name) == \E x \in f : x.dir = dir /\ x.name = name

\* pd.read_csv(os.path.join(dir, name)) of a file that can be read: the
\* table of the file
ReadCsv(f, dir, name) ==
    IF \E x \in f : x.dir = dir /\ x.name = name
    THEN (CHOOSE x \in f : x.dir = dir /\ x.name = name).table
    ELSE <<>>

\* df.to_csv(os.path.join(dir, name), index=False)
ToCsv(f, dir, name, table) ==
    {x \in f : ~(x.dir = dir /\ x.name = name)} \cup {File(dir, name, table)}

\* (reads that never raise)
ReadNeverFails(f, dir, names) == ""

\* the exception of pd.read_csv over the files `names` of `dir`, read in
\* that order: FileNotFoundError for a file that is not there,
\* EmptyDataError for a file without a header line (the file to_csv writes
\* for a frame built from an empty list)
ReadError(f, dir, names) ==
    LET Bad(name) == ~Exists(f, dir, name) \/ ReadCsv(f, dir, name) = <<>>
        bad == SelectSeq(names, Bad)
    IN  IF bad = <<>> THEN ""
        ELSE IF ~Exists(f, dir, Head(bad)) THEN "FileNotFoundError"
        ELSE "EmptyDataError"

----------------------------------------------------------------------------
(* Stage 1: generate_restaurants and generate_menu.                        *)

\* cuisines and restaurant_names, by position
NumCuisines == 15

NumRestaurantNames == 30

\* the cuisines that have an entry in menu_items_by_cuisine; an entry has 6
\* dishes, the default list has 3
CuisinesWithDishes == {1, 2, 3, 4, 6, 7}

BaseItems(cuisine) == IF cuisine \in CuisinesWithDishes THEN 6 ELSE 3

\* categories, by position, and price_ranges in paise
Categories ==
    << "Appetizer", "Main Course", "Dessert", "Beverage", "Bread", "Salad", "Soup" >>

PriceRanges ==
    << <<5000, 25000>>, <<15000, 60000>>, <<8000, 20000>>, <<3000, 15000>>,
       <<2000, 8000>>, <<10000, 25000>>, <<8000, 18000>> >>

NumSuffixes == 5

\* the cities with a rating bias are the first five of indian_cities
BiasedCities == 5

\* rating_bias = 0.3, in hundredths
RatingBias == 30

\* random.uniform(3.0, 5.0), in hundredths: the two ends
RatingOutcomes == <<300, 500>>

\* random.choice([True] * 95 + [False] * 5), random.choice([True] * 90 +
\* [False] * 10), random.choice([True, False])
TrueOrFalse == <<TRUE, FALSE>>

Indexes(n) == [k \in 1..n |-> k]

\* one iteration of `for i in range(1, num_restaurants + 1)`
RestaurantRow ==
    /\ pc1 = "restaurants"
    /\ restaurant_i <= NumRestaurants
    /\ \E city \in Outcomes(cities_df, np_random_state, 1),
          cuisine \in Outcomes(Indexes(NumCuisines), random_state, 1),
          name \in Outcomes(Indexes(NumRestaurantNames), random_state, 2),
          rating \in Outcomes(RatingOutcomes, random_state, 3),
          active \in Outcomes(TrueOrFalse, random_state, 4) :
          LET rating_bias == IF city.CityID <= BiasedCities THEN RatingBias ELSE 0
          IN  restaurants_data' = Append(restaurants_data,
                 [RestaurantID |-> restaurant_i,
                  Name |-> <<name, city.CityID, restaurant_i>>,
                  CityID |-> city.CityID,
                  Cuisine |-> cuisine,
                  Rating |-> rating + rating_bias,
                  IsActive |-> active])
    /\ random_state' = Advance(random_state, 4)
    /\ np_random_state' = Advance(np_random_state, 1)
    /\ restaurant_i' = restaurant_i + 1
    /\ UNCHANGED <<pc1, users1, menu_pos, menu_data, files, runs, vars2, vars3>>

\* return pd.DataFrame(restaurants_data)
RestaurantsReturn ==
    /\ pc1 = "restaurants"
    /\ restaurant_i > NumRestaurants
    /\ menu_pos' = 1
    /\ pc1' = "menu"
    /\ UNCHANGED <<rngVars, users1, restaurant_i, restaurants_data, menu_data,
                   files, runs, vars2, vars3>>

RECURSIVE MenuRows(_, _, _, _, _)
\* the rows `for i in range(num_items)` appends for `restaurant`, the first
\* with MenuID menu_id and made of the six draws that follow draw `i`
MenuRows(restaurant, menu_id, num_items, r, i) ==
    IF num_items = 0 THEN {<<>>}
    ELSE UNION {
           { <<[MenuID |-> menu_id,
                RestaurantID |-> restaurant.RestaurantID,
                ItemName |-> <<base, suffix>>,
                Price |-> price,
                Category |-> Categories[category],
                CuisineType |-> restaurant.Cuisine,
                IsVegetarian |-> vegetarian,
                IsAvailable |-> available]>> \o rest :
             base \in Outcomes(Indexes(BaseItems(restaurant.Cuisine)), r, i + 2),
             suffix \in Outcomes(Indexes(NumSuffixes), r, i + 3),
             \* generate_realistic_price(category): the two ends of the range
             price \in Outcomes(PriceRanges[category], r, i + 4),
             vegetarian \in Outcomes(TrueOrFalse, r, i + 5),
             available \in Outcomes(TrueOrFalse, r, i + 6),
             rest \in MenuRows(restaurant, menu_id + 1, num_items - 1, r, i + 6) }
           : category \in Outcomes(Indexes(Len(Categories)), r, i + 1) }

\* one iteration of `for _, restaurant in restaurants_df.iterrows()`
MenuIter ==
    /\ pc1 = "menu"
    /\ menu_pos <= Len(restaurants_data)
    /\ \E num_items \in Outcomes(RandInt(MenuMin, MenuMax), random_state, 1) :
          /\ \E rows \in MenuRows(restaurants_data[menu_pos], Len(menu_data) + 1,
                                  num_items, random_state, 1) :
                menu_data' = menu_data \o rows
          /\ random_state' = Advance(random_state, 1 + 6 * num_items)
    /\ menu_pos' = menu_pos + 1
    /\ UNCHANGED <<np_random_state, pc1, users1, restaurant_i, restaurants_data,
                   files, runs, vars2, vars3>>

\* return pd.DataFrame(menu_data)
MenuReturn ==
    /\ pc1 = "menu"
    /\ menu_pos > Len(restaurants_data)
    /\ pc1' = "save"
    /\ UNCHANGED <<rngVars, users1, later1, files, runs, vars2, vars3>>

----------------------------------------------------------------------------
(* Stage 3: generate_user_sessions.                                        *)

Crash3(exception) ==
    /\ pc3' = "crashed"
    /\ error3' = exception

\* random.randint(2, 30) minutes
SessionMinutes == RandInt(2, 30)

\* random.randint(5, 20) pages of a session with an order, random.randint(1, 8)
\* of one without
PagesViewed(order_placed) == IF order_placed THEN RandInt(5, 20) ELSE RandInt(1, 8)

DeviceTypes == <<"Mobile", "Mobile", "Mobile", "Desktop", "Tablet">>

\* (end_date - signup_date).days, end_date = datetime(2024, 12, 31)
DaysToEnd(user) == EndDay - user.SignUpDate

\* max(1, int(days / 30)) * CONFIG["sessions_per_user_per_month"]
TotalSessions(user) == Max(1, DaysToEnd(user) \div DaysPerMonth) * SessionsPerMonth

\* orders_df[orders_df["UserID"] == user_id]
UserOrders(df, user_id) ==
    LET Mine(o) == o.UserID = user_id
    IN  SelectSeq(df, Mine)

\* (a match that leaves out the orders of the session's last minute)
OrderMatchBeforeEnd(user_orders, session_start, session_end) ==
    LET Within(o) == o.OrderTime >= session_start /\ o.OrderTime < session_end
    IN  SelectSeq(user_orders, Within)

\* user_orders[(OrderTime >= session_start) & (OrderTime <= session_end)]
OrderMatch(user_orders, session_start, session_end) ==
    LET Within(o) == o.OrderTime >= session_start /\ o.OrderTime <= session_end
    IN  SelectSeq(user_orders, Within)

\* the head of `for _, user in users_df.iterrows()`, down to `for _ in
\* range(total_sessions)`
SessionsUser ==
    /\ pc3 = "sessions"
    /\ session_pos <= Len(users_df3)
    /\ sessions_left' = TotalSessions(users_df3[session_pos])
    /\ pc3' = "user_sessions"
    /\ UNCHANGED <<rngVars, error3, inputs3, session_pos, sessions, carts3, outside3>>

\* one iteration of `for _ in range(total_sessions)`
SessionIter ==
    /\ pc3 = "user_sessions"
    /\ sessions_left > 0
    /\ LET user == users_df3[session_pos]
           user_orders == UserOrders(orders_df3, user.UserID)
       IN  \E die \in Dice,
              random_days \in Outcomes(RandInt(0, DaysToEnd(user)), random_state, 1),
              duration \in Outcomes(SessionMinutes, random_state, 2) :
              LET session_start == (user.SignUpDate + random_days) * MinutesPerDay
                  session_end == session_start + duration
                  order_match == OrderMatch(user_orders, session_start, session_end)
                  order_placed == order_match # <<>>
              IN  sessions' = Append(sessions,
                     [SessionID |-> Len(sessions) + 1,
                      UserID |-> user.UserID,
                      SessionStart |-> session_start,
                      SessionEnd |-> session_end,
                      OrderPlaced |-> order_placed,
                      OrderID |-> IF order_placed THEN Head(order_match).OrderID ELSE None,
                      PagesViewed |-> Joint(PagesViewed(order_placed), random_state, 3, die),
                      DeviceType |-> Joint(DeviceTypes, random_state, 4, die)])
    /\ random_state' = Advance(random_state, 4)
    /\ sessions_left' = sessions_left - 1
    /\ UNCHANGED <<np_random_state, pc3, error3, inputs3, session_pos, carts3, outside3>>

\* the end of `for _ in range(total_sessions)`: on to the next user
SessionsUserDone ==
    /\ pc3 = "user_sessions"
    /\ sessions_left = 0
    /\ session_pos' = session_pos + 1
    /\ pc3' = "sessions"
    /\ UNCHANGED <<rngVars, error3, inputs3, sessions_left, sessions, carts3, outside3>>

\* return pd.DataFrame(sessions)
SessionsReturn ==
    /\ pc3 = "sessions"
    /\ session_pos > Len(users_df3)
    /\ cart_pos' = 1
    /\ pc3' = "cart_ordered"
    /\ UNCHANGED <<rngVars, error3, inputs3, sessions3, abandoned_left, cart, outside3>>

----------------------------------------------------------------------------
(* Stage 3: generate_cart_items.                                           *)

\* CONFIG["abandoned_cart_rate"], in hundredths
AbandonedCartRate == 30

\* random.randint(1, 10) minutes before the order
AddedBefore == RandInt(1, 10)

\* random.choice([1, 1, 2])
CartQuantityChoices == <<1, 1, 2>>

\* datetime(2024, 1, 1) + timedelta(days=random.randint(0, 364))
AbandonedDayOffsets == RandInt(0, DaysPerYear - 1)

\* (the first line of the order only)
FirstLineOf(df, order) ==
    LET Mine(item) == item.OrderID = order.OrderID
    IN  Take(SelectSeq(df, Mine), 1)

\* order_items_df[order_items_df["OrderID"] == order["OrderID"]]
LinesOf(df, order) ==
    LET Mine(item) == item.OrderID = order.OrderID
    IN  SelectSeq(df, Mine)

\* int(len(cart) * rate / (1 - rate)); the floating-point quotient has the
\* integer part of the exact one for every length below 2000
TargetAbandoned(len) == (len * AbandonedCartRate) \div (100 - AbandonedCartRate)

\* one iteration of `for _, order in orders_df.iterrows()` with its inner
\* loop over the lines of the order; iterrows hands the line over as floats,
\* which hold MenuID and Quantity exactly
CartOrderIter ==
    /\ pc3 = "cart_ordered"
    /\ cart_pos <= Len(orders_df3)
    /\ LET order == orders_df3[cart_pos]
           items == LinesOf(order_items_df3, order)
       IN  /\ \E die \in Dice :
                 cart' = cart \o
                    [k \in 1..Len(items) |->
                        [CartID |-> Len(cart) + k,
                         UserID |-> order.UserID,
                         RestaurantID |-> order.RestaurantID,
                         MenuID |-> items[k].MenuID,
                         Quantity |-> items[k].Quantity,
                         AddedAt |-> order.OrderTime - Joint(AddedBefore, random_state, k, die),
                         IsOrdered |-> TRUE,
                         OrderID |-> order.OrderID]]
           /\ random_state' = Advance(random_state, Len(items))
    /\ cart_pos' = cart_pos + 1
    /\ UNCHANGED <<np_random_state, pc3, error3, inputs3, sessions3, abandoned_left,
                   outside3>>

\* target_abandoned = int(len(cart) * rate / (1 - rate))
CartTarget ==
    /\ pc3 = "cart_ordered"
    /\ cart_pos > Len(orders_df3)
    /\ abandoned_left' = TargetAbandoned(Len(cart))
    /\ pc3' = "cart_abandoned"
    /\ UNCHANGED <<rngVars, error3, inputs3, sessions3, cart_pos, cart, outside3>>

\* one iteration of `for _ in range(target_abandoned)`; DataFrame.sample(1)
\* raises ValueError on a frame without rows
CartAbandonedIter ==
    /\ pc3 = "cart_abandoned"
    /\ abandoned_left > 0
    /\ LET active == ActiveRestaurants(restaurants_df3)
       IN  IF users_df3 = <<>>
           THEN /\ Crash3("ValueError: users_df.sample(1)")
                /\ UNCHANGED <<rngVars, abandoned_left, cart>>
           ELSE IF active = <<>>
           THEN /\ Crash3("ValueError: restaurants_df.sample(1)")
                /\ UNCHANGED <<rngVars, abandoned_left, cart>>
           ELSE \E die \in Dice, restaurant \in Outcomes(active, np_random_state, 2) :
                LET user == Joint(users_df3, np_random_state, 1, die)
                    menu_items == RestaurantMenu(menu_df3, restaurant)
                IN  /\ IF menu_items = <<>>
                       THEN /\ np_random_state' = Advance(np_random_state, 2)
                            /\ UNCHANGED <<random_state, cart>>
                       ELSE LET item == Joint(menu_items, np_random_state, 3, die)
                            IN  /\ cart' = Append(cart,
                                      [CartID |-> Len(cart) + 1,
                                       UserID |-> user.UserID,
                                       RestaurantID |-> restaurant.RestaurantID,
                                       MenuID |-> item.MenuID,
                                       Quantity |-> Joint(CartQuantityChoices, random_state, 1, die),
                                       AddedAt |-> Joint(AbandonedDayOffsets, random_state, 2, die)
                                                      * MinutesPerDay,
                                       IsOrdered |-> FALSE,
                                       OrderID |-> None])
                                /\ np_random_state' = Advance(np_random_state, 3)
                                /\ random_state' = Advance(random_state, 2)
                    /\ abandoned_left' = abandoned_left - 1
                    /\ UNCHANGED <<pc3, error3>>
    /\ UNCHANGED <<inputs3, sessions3, cart_pos, outside3>>

\* return pd.DataFrame(cart)
CartReturn ==
    /\ pc3 = "cart_abandoned"
    /\ abandoned_left = 0
    /\ pc3' = "save"
    /\ UNCHANGED <<rngVars, error3, inputs3, sessions3, carts3, outside3>>

----------------------------------------------------------------------------
(* Input tables and configurations the runs start from.                    *)

User(id, city) ==
    [UserID |-> id, CityID |-> city, SignUpDate |-> 0,
     AcquisitionChannelID |-> 1, ReferredBy |-> None]

Restaurant(id, city, active) == [RestaurantID |-> id, CityID |-> city, IsActive |-> active]

MenuItem(id, restaurant, price, available) ==
    [MenuID |-> id, RestaurantID |-> restaurant, Price |-> price, IsAvailable |-> available]

\* CONFIG of generate_data_02.py; a year is DaysPerYear days here, so a
\* target of DaysPerYear orders is one order a day
Config2(start_weekday, end_day, orders_per_day, power, weekend, bots) ==
    [start_weekday |-> start_weekday,
     end_day |-> end_day,
     target_total_orders |-> orders_per_day * DaysPerYear,
     power_user_percentage |-> power,
     weekend_only_user_percentage |-> weekend,
     bot_users_count |-> bots]

\* one restaurant with a menu of several prices, one weekday
RichMenu ==
    [users |-> <<User(1, 1), User(2, 1), User(3, 1)>>,
     restaurants |-> <<Restaurant(1, 1, TRUE)>>,
     menu |-> <<MenuItem(1, 1, 30000, TRUE), MenuItem(2, 1, 12050, TRUE),
                MenuItem(3, 1, 8000, FALSE)>>,
     config |-> Config2(0, 0, 1, 20, 15, 1)]

\* four cohorts, a Friday and a Saturday; city 2 has no active restaurant and
\* restaurant 3 offers nothing
FourCohorts ==
    [users |-> <<User(1, 1), User(2, 1), User(3, 2), User(4, 2)>>,
     restaurants |-> <<Restaurant(1, 1, TRUE), Restaurant(2, 2, FALSE),
                       Restaurant(3, 1, TRUE)>>,
     menu |-> <<MenuItem(1, 1, 20000, TRUE), MenuItem(2, 3, 9000, FALSE),
                MenuItem(3, 2, 15000, TRUE)>>,
     config |-> Config2(4, 1, 1, 25, 25, 1)]

\* no restaurant is active
NoActiveRestaurant ==
    [users |-> <<User(1, 1), User(2, 1)>>,
     restaurants |-> <<Restaurant(1, 1, FALSE)>>,
     menu |-> <<MenuItem(1, 1, 20000, TRUE)>>,
     config |-> Config2(0, 0, 1, 20, 15, 1)]

\* a single user, who becomes the bot
LoneUser ==
    [users |-> <<User(1, 1)>>,
     restaurants |-> <<Restaurant(1, 1, TRUE)>>,
     menu |-> <<MenuItem(1, 1, 20000, TRUE)>>,
     config |-> Config2(0, 0, 1, 20, 15, 1)]

\* fewer users than bots to pick
TooFewUsers ==
    [users |-> <<User(1, 1)>>,
     restaurants |-> <<Restaurant(1, 1, TRUE)>>,
     menu |-> <<MenuItem(1, 1, 20000, TRUE)>>,
     config |-> Config2(0, 0, 1, 20, 15, 2)]

\* twelve orders a day from a Friday to the Saturday after it, for a
\* restaurant whose only menu item is not available: every iteration of the
\* order loop ends at `continue`
BusyDays ==
    [users |-> <<User(1, 1)>>,
     restaurants |-> <<Restaurant(1, 1, TRUE)>>,
     menu |-> <<MenuItem(1, 1, 20000, FALSE)>>,
     config |-> Config2(4, 1, 12, 20, 15, 0)]

\* one order of a user whose city has no active restaurant, from a menu of
\* five available items
LongMenu ==
    [users |-> <<User(1, 2)>>,
     restaurants |-> <<Restaurant(1, 1, TRUE), Restaurant(2, 2, FALSE)>>,
     menu |-> <<MenuItem(1, 1, 5000, TRUE), MenuItem(2, 1, 6000, TRUE),
                MenuItem(3, 1, 7000, TRUE), MenuItem(4, 1, 8000, TRUE),
                MenuItem(5, 1, 9000, TRUE), MenuItem(6, 2, 9000, TRUE)>>,
     config |-> Config2(0, 0, 1, 20, 15, 0)]

OrderScenarios ==
    {RichMenu, FourCohorts, NoActiveRestaurant, LoneUser, TooFewUsers, BusyDays, LongMenu}

\* CONFIG of generate_data_02.py: 1 January 2024 is a Monday, the range ends
\* on EndDay, 20% power users, 15% weekend-only users; one order a day for
\* the 300000 a year and one bot for the 50 of the source
MainConfig2 == Config2(0, EndDay, 1, 20, 15, 1)

----------------------------------------------------------------------------
(* The top-level code of the three scripts.                                *)

\* users.csv, restaurants.csv, menu.csv: read by Stage 2 in this order,
\* required_master of Stage 3
MasterFiles == <<"users.csv", "restaurants.csv", "menu.csv">>

\* required_txn of Stage 3
TxnFiles == <<"orders.csv", "order_items.csv">>

\* random.seed(42); np.random.seed(42)
Stage1Start ==
    /\ pc1 = "start"
    /\ random_state' = Seeded(SeedValue)
    /\ np_random_state' = Seeded(SeedValue)
    /\ pc1' = "signup_schedule"
    /\ UNCHANGED <<users1, later1, files, runs, vars2, vars3>>

\* the six to_csv calls, into the working directory
Stage1Save ==
    /\ pc1 = "save"
    /\ fs' = ToCsv(ToCsv(ToCsv(ToCsv(ToCsv(ToCsv(fs,
                cwd, "cities.csv", cities_df),
                cwd, "acquisition_channels.csv", channels_df),
                cwd, "users.csv", users_df),
                cwd, "referrals.csv", referrals_data),
                cwd, "restaurants.csv", restaurants_data),
                cwd, "menu.csv", menu_data)
    /\ pc1' = "done"
    /\ UNCHANGED <<rngVars, cwd, fs_start, runs, users1, later1, vars2, vars3>>

\* random.seed(42); np.random.seed(42); CONFIG = {...}
Stage2Start ==
    /\ pc2 = "start"
    /\ random_state' = Seeded(SeedValue)
    /\ np_random_state' = Seeded(SeedValue)
    /\ config2' = MainConfig2
    /\ pc2' = "load"
    /\ UNCHANGED <<error2, users_df2, restaurants_df2, menu_df2, cohorts, tables2,
                   loops2, later2, outside2>>

\* the three pd.read_csv calls from CSV_DIR
Stage2Load ==
    /\ pc2 = "load"
    /\ LET exception == ReadError(fs, CSV_DIR, MasterFiles)
       IN  IF exception # ""
           THEN /\ Crash2(exception)
                /\ UNCHANGED <<users_df2, restaurants_df2, menu_df2>>
           ELSE /\ users_df2' = ReadCsv(fs, CSV_DIR, "users.csv")
                /\ restaurants_df2' = ReadCsv(fs, CSV_DIR, "restaurants.csv")
                /\ menu_df2' = ReadCsv(fs, CSV_DIR, "menu.csv")
                /\ pc2' = "segment"
                /\ UNCHANGED error2
    /\ UNCHANGED <<rngVars, config2, cohorts, tables2, loops2, later2, outside2>>

\* the four to_csv calls, into the working directory
Stage2Save ==
    /\ pc2 = "save"
    /\ fs' = ToCsv(ToCsv(ToCsv(ToCsv(fs,
                cwd, "orders.csv", orders_df),
                cwd, "order_items.csv", order_items_df),
                cwd, "delivery_tracking.csv", delivery_data),
                cwd, "reviews.csv", reviews_data)
    /\ pc2' = "done"
    /\ UNCHANGED <<rngVars, cwd, fs_start, runs, error2, inputs2, cohorts, tables2,
                   loops2, later2, vars1, vars3>>

\* the two loops of the safety checks
Stage3Check ==
    /\ pc3 = "check"
    /\ IF \/ \E k \in 1..Len(MasterFiles) : ~Exists(fs, CSV_DIR, MasterFiles[k])
          \/ \E k \in 1..Len(TxnFiles) : ~Exists(fs, BASE_DIR, TxnFiles[k])
       THEN Crash3("FileNotFoundError")
       ELSE /\ pc3' = "start"
            /\ UNCHANGED error3
    /\ UNCHANGED <<rngVars, inputs3, sessions3, carts3, outside3>>

\* random.seed(42); np.random.seed(42); the five pd.read_csv calls
Stage3Start ==
    /\ pc3 = "start"
    /\ random_state' = Seeded(SeedValue)
    /\ np_random_state' = Seeded(SeedValue)
    /\ LET master == ReadError(fs, CSV_DIR, MasterFiles)
           exception == IF master # "" THEN master ELSE ReadError(fs, BASE_DIR, TxnFiles)
       IN  IF exception # ""
           THEN /\ Crash3(exception)
                /\ UNCHANGED <<inputs3, session_pos>>
           ELSE /\ users_df3' = ReadCsv(fs, CSV_DIR, "users.csv")
                /\ restaurants_df3' = ReadCsv(fs, CSV_DIR, "restaurants.csv")
                /\ menu_df3' = ReadCsv(fs, CSV_DIR, "menu.csv")
                /\ orders_df3' = ReadCsv(fs, BASE_DIR, "orders.csv")
                /\ order_items_df3' = ReadCsv(fs, BASE_DIR, "order_items.csv")
                /\ session_pos' = 1
                /\ pc3' = "sessions"
                /\ UNCHANGED error3
    /\ UNCHANGED <<sessions_left, sessions, carts3, outside3>>

\* the two to_csv calls, into OUTPUT_DIR = BASE_DIR
Stage3Save ==
    /\ pc3 = "save"
    /\ fs' = ToCsv(ToCsv(fs,
                BASE_DIR, "user_sessions.csv", sessions),
                BASE_DIR, "cart_items.csv", cart)
    /\ pc3' = "done"
    /\ UNCHANGED <<rngVars, cwd, fs_start, runs, error3, inputs3, sessions3, carts3,
                   vars1, vars2>>

----------------------------------------------------------------------------
(* The state of a stage that is not running or has not started.            *)

Idle1Later ==
    /\ restaurant_i = 1
    /\ restaurants_data = <<>>
    /\ menu_pos = 0
    /\ menu_data = <<>>

Idle3Tables ==
    /\ users_df3 = <<>>
    /\ restaurants_df3 = <<>>
    /\ menu_df3 = <<>>
    /\ orders_df3 = <<>>
    /\ order_items_df3 = <<>>
    /\ session_pos = 0
    /\ sessions_left = 0
    /\ sessions = <<>>
    /\ cart_pos = 0
    /\ abandoned_left = 0
    /\ cart = <<>>

Idle3 ==
    /\ pc3 = "idle"
    /\ error3 = ""
    /\ Idle3Tables

NoRun == [fs |-> {}, random_state |-> Unseeded, np_random_state |-> Unseeded]

\* no file is read or written by the functions of a stage
NoFiles ==
    /\ fs = {}
    /\ cwd = BASE_DIR
    /\ fs_start = {}
    /\ run = 1
    /\ first_run = NoRun

Idle2Later ==
    /\ orders_df = <<>>
    /\ order_items_df = <<>>
    /\ delivery_pos = 0
    /\ delivery_data = <<>>
    /\ reviewed_orders = <<>>
    /\ review_pos = 0
    /\ reviews_data = <<>>

Idle2Orders ==
    /\ config2 = Config2(0, 0, 0, 0, 0, 0)
    /\ users_df2 = <<>>
    /\ restaurants_df2 = <<>>
    /\ menu_df2 = <<>>
    /\ power_users = <<>>
    /\ weekend_users = <<>>
    /\ bot_users = <<>>
    /\ regular_users = <<>>
    /\ current_date2 = 0
    /\ iter_left = 0
    /\ orders_data = <<>>
    /\ order_items_data = <<>>
    /\ order_id = 1
    /\ order_item_id = 1
    /\ bot_pos = 0
    /\ bot_date = 0
    /\ bot_left = 0

Idle2 ==
    /\ pc2 = "idle"
    /\ error2 = ""
    /\ Idle2Orders
    /\ Idle2Later

----------------------------------------------------------------------------
(* generate_users and add_referrals for every configured user count, the   *)
(* generators in an arbitrary state.                                       *)

Idle1 ==
    /\ pc1 = "idle"
    /\ num_users = 0
    /\ current_date1 = 0
    /\ signup_dates = <<>>
    /\ user_i = 0
    /\ users_data = <<>>
    /\ users_df = <<>>
    /\ users_with_channel_5 = <<>>
    /\ ref_pos = 0
    /\ referrals_data = <<>>
    /\ Idle1Later

InitUsers ==
    /\ random_state = Unseeded
    /\ np_random_state = Unseeded
    /\ pc1 = "signup_schedule"
    /\ num_users \in 1..MaxUsers
    /\ current_date1 = 0
    /\ signup_dates = <<>>
    /\ user_i = 0
    /\ users_data = <<>>
    /\ users_df = <<>>
    /\ users_with_channel_5 = <<>>
    /\ ref_pos = 0
    /\ referrals_data = <<>>
    /\ Idle1Later
    /\ Idle2
    /\ Idle3
    /\ NoFiles

NextUsers ==
    \/ SignupDay
    \/ SignupTruncate
    \/ UserRow
    \/ UsersReturn
    \/ ReferralIter
    \/ ReferralsReturn

SpecUsers == InitUsers /\ [][NextUsers]_vars

----------------------------------------------------------------------------
(* generate_orders on each input, the generators in an arbitrary state.    *)

InitOrders ==
    /\ random_state = Unseeded
    /\ np_random_state = Unseeded
    /\ Idle1
    /\ Idle3
    /\ NoFiles
    /\ \E input \in OrderScenarios :
          /\ config2 = input.config
          /\ users_df2 = input.users
          /\ restaurants_df2 = input.restaurants
          /\ menu_df2 = input.menu
    /\ pc2 = "segment"
    /\ error2 = ""
    /\ power_users = <<>>
    /\ weekend_users = <<>>
    /\ bot_users = <<>>
    /\ regular_users = <<>>
    /\ current_date2 = 0
    /\ iter_left = 0
    /\ orders_data = <<>>
    /\ order_items_data = <<>>
    /\ order_id = 1
    /\ order_item_id = 1
    /\ bot_pos = 0
    /\ bot_date = 0
    /\ bot_left = 0
    /\ Idle2Later

NextOrders ==
    \/ Segment
    \/ DayStart
    \/ OrderIter
    \/ DayEnd
    \/ DaysDone
    \/ BotStart
    \/ BotOrderIter
    \/ BotEnd
    \/ OrdersReturn

SpecOrders == InitOrders /\ [][NextOrders]_vars

----------------------------------------------------------------------------
(* Orders tables of the shape generate_orders returns: OrderID is the      *)
(* position of the row, every order has a user and a restaurant of its own.*)

OrderRow(id, status, time) ==
    [OrderID |-> id,
     UserID |-> 10 + id,
     RestaurantID |-> 20 + id,
     OrderTime |-> time,
     OrderDate |-> time \div MinutesPerDay,
     OrderHour |-> (time % MinutesPerDay) \div 60,
     TotalAmount |-> 20000,
     DeliveryFee |-> 0,
     DiscountAmount |-> 0,
     FinalAmount |-> 20000,
     OrderStatus |-> status,
     PaymentMethod |-> "UPI"]

\* the first and the last minute an order of the date range can have
OrderTimes == {0, (EndDay + 1) * MinutesPerDay - 1}

OrderTables(max_rows, times) ==
    UNION { { [i \in 1..k |-> OrderRow(i, status[i], time[i])] :
                status \in [1..k -> Range(OrderStatusChoices)], time \in [1..k -> times] }
            : k \in 0..max_rows }

----------------------------------------------------------------------------
(* generate_delivery_tracking on each orders table, the generators in an   *)
(* arbitrary state.                                                        *)

InitDelivery ==
    /\ random_state = Unseeded
    /\ np_random_state = Unseeded
    /\ Idle1
    /\ Idle3
    /\ NoFiles
    /\ Idle2Orders
    /\ pc2 = "delivery"
    /\ error2 = ""
    /\ orders_df \in OrderTables(MaxOrderRows, OrderTimes)
    /\ order_items_df = <<>>
    /\ delivery_pos = 1
    /\ delivery_data = <<>>
    /\ reviewed_orders = <<>>
    /\ review_pos = 0
    /\ reviews_data = <<>>

NextDelivery ==
    \/ DeliveryIter
    \/ DeliveryReturn

SpecDelivery == InitDelivery /\ [][NextDelivery]_vars

----------------------------------------------------------------------------
(* generate_reviews on each orders table, the generators in an arbitrary   *)
(* state.                                                                  *)

InitReviews ==
    /\ random_state = Unseeded
    /\ np_random_state = Unseeded
    /\ Idle1
    /\ Idle3
    /\ NoFiles
    /\ Idle2Orders
    /\ pc2 = "reviews_sample"
    /\ error2 = ""
    /\ orders_df \in OrderTables(MaxReviewOrders, {MinutesPerDay - 1})
    /\ order_items_df = <<>>
    /\ delivery_pos = 0
    /\ delivery_data = <<>>
    /\ reviewed_orders = <<>>
    /\ review_pos = 0
    /\ reviews_data = <<>>

NextReviews ==
    \/ ReviewsSample
    \/ ReviewIter
    \/ ReviewsReturn

SpecReviews == InitReviews /\ [][NextReviews]_vars

----------------------------------------------------------------------------
(* Inputs of generate_cart_items of the shape Stage 1 and Stage 2 write:   *)
(* every order has one or two lines of distinct menu items of its          *)
(* restaurant, restaurant 20 offers nothing, restaurant 19 is closed.      *)

LinesPerOrder == {1, 2}

OrderLine(id, order, menu, quantity) ==
    [OrderItemID |-> id, OrderID |-> order, MenuID |-> menu, Quantity |-> quantity,
     ItemPrice |-> 10000, Subtotal |-> Subtotal(10000, quantity)]

RECURSIVE OrderLines(_, _, _)
\* the lines of the orders i.. when order j has lines[j] lines
OrderLines(lines, i, next_id) ==
    IF i > Len(lines) THEN <<>>
    ELSE [j \in 1..lines[i] |-> OrderLine(next_id + j - 1, i, 2 * i + j - 1, j)]
         \o OrderLines(lines, i + 1, next_id + lines[i])

CartInput(lines, open) ==
    [users |-> [i \in 1..Len(lines) |-> User(10 + i, 1)],
     restaurants |-> <<Restaurant(19, 1, FALSE), Restaurant(20, 1, open)>>
                     \o [i \in 1..Len(lines) |-> Restaurant(20 + i, 1, open)],
     menu |-> <<MenuItem(1, 20, 9000, FALSE)>>
              \o [m \in 1..2 * Len(lines) |->
                     MenuItem(m + 1, 20 + (m + 1) \div 2, 10000, TRUE)],
     orders |-> [i \in 1..Len(lines) |->
                    OrderRow(i, OrderStatusChoices[1 + (i % 2)], i * MinutesPerDay - i)],
     order_items |-> OrderLines(lines, 1, 1)]

CartInputs ==
    { CartInput(lines, open) :
        lines \in UNION { [1..k -> LinesPerOrder] : k \in 1..MaxCartOrders },
        open \in BOOLEAN }

----------------------------------------------------------------------------
(* generate_cart_items on each input, the generators in an arbitrary       *)
(* state.                                                                  *)

InitCart ==
    /\ random_state = Unseeded
    /\ np_random_state = Unseeded
    /\ Idle1
    /\ Idle2
    /\ NoFiles
    /\ pc3 = "cart_ordered"
    /\ error3 = ""
    /\ \E input \in CartInputs :
          /\ users_df3 = input.users
          /\ restaurants_df3 = input.restaurants
          /\ menu_df3 = input.menu
          /\ orders_df3 = input.orders
          /\ order_items_df3 = input.order_items
    /\ session_pos = 0
    /\ sessions_left = 0
    /\ sessions = <<>>
    /\ cart_pos = 1
    /\ abandoned_left = 0
    /\ cart = <<>>

NextCart ==
    \/ CartOrderIter
    \/ CartTarget
    \/ CartAbandonedIter
    \/ CartReturn

SpecCart == InitCart /\ [][NextCart]_vars

----------------------------------------------------------------------------
(* One stage run twice as a script, each run a process of its own, over    *)
(* every set of input files that is there when the first run starts.       *)

\* a second run of Stage 1 after the first has completed
Rerun1 ==
    /\ pc1 = "done"
    /\ run = 1
    /\ first_run' = [fs |-> fs, random_state |-> random_state,
                     np_random_state |-> np_random_state]
    /\ run' = 2
    /\ fs_start' = fs
    /\ random_state' = Unseeded
    /\ np_random_state' = Unseeded
    /\ pc1' = "start"
    /\ current_date1' = 0
    /\ signup_dates' = <<>>
    /\ user_i' = 0
    /\ users_data' = <<>>
    /\ users_df' = <<>>
    /\ users_with_channel_5' = <<>>
    /\ ref_pos' = 0
    /\ referrals_data' = <<>>
    /\ restaurant_i' = 1
    /\ restaurants_data' = <<>>
    /\ menu_pos' = 0
    /\ menu_data' = <<>>
    /\ UNCHANGED <<fs, cwd, num_users, vars2, vars3>>

\* a second run of Stage 2 after the first has completed
Rerun2 ==
    /\ pc2 = "done"
    /\ run = 1
    /\ first_run' = [fs |-> fs, random_state |-> random_state,
                     np_random_state |-> np_random_state]
    /\ run' = 2
    /\ fs_start' = fs
    /\ random_state' = Unseeded
    /\ np_random_state' = Unseeded
    /\ pc2' = "start"
    /\ config2' = Config2(0, 0, 0, 0, 0, 0)
    /\ users_df2' = <<>>
    /\ restaurants_df2' = <<>>
    /\ menu_df2' = <<>>
    /\ power_users' = <<>>
    /\ weekend_users' = <<>>
    /\ bot_users' = <<>>
    /\ regular_users' = <<>>
    /\ current_date2' = 0
    /\ iter_left' = 0
    /\ orders_data' = <<>>
    /\ order_items_data' = <<>>
    /\ order_id' = 1
    /\ order_item_id' = 1
    /\ bot_pos' = 0
    /\ bot_date' = 0
    /\ bot_left' = 0
    /\ orders_df' = <<>>
    /\ order_items_df' = <<>>
    /\ delivery_pos' = 0
    /\ delivery_data' = <<>>
    /\ reviewed_orders' = <<>>
    /\ review_pos' = 0
    /\ reviews_data' = <<>>
    /\ UNCHANGED <<fs, cwd, error2, vars1, vars3>>

\* a second run of Stage 3 after the first has completed
Rerun3 ==
    /\ pc3 = "done"
    /\ run = 1
    /\ first_run' = [fs |-> fs, random_state |-> random_state,
                     np_random_state |-> np_random_state]
    /\ run' = 2
    /\ fs_start' = fs
    /\ random_state' = Unseeded
    /\ np_random_state' = Unseeded
    /\ pc3' = "check"
    /\ users_df3' = <<>>
    /\ restaurants_df3' = <<>>
    /\ menu_df3' = <<>>
    /\ orders_df3' = <<>>
    /\ order_items_df3' = <<>>
    /\ session_pos' = 0
    /\ sessions_left' = 0
    /\ sessions' = <<>>
    /\ cart_pos' = 0
    /\ abandoned_left' = 0
    /\ cart' = <<>>
    /\ UNCHANGED <<fs, cwd, error3, vars1, vars2>>

\* the tables of the input files
MainInput == CartInput(<<2, 1>>, TRUE)

\* the input files of Stage 2 and Stage 3
InputFiles ==
    { File(CSV_DIR, "users.csv", MainInput.users),
      File(CSV_DIR, "restaurants.csv", MainInput.restaurants),
      File(CSV_DIR, "menu.csv", MainInput.menu),
      File(BASE_DIR, "orders.csv", MainInput.orders),
      File(BASE_DIR, "order_items.csv", MainInput.order_items) }

InitMain ==
    /\ random_state = Unseeded
    /\ np_random_state = Unseeded
    /\ fs \in SUBSET InputFiles
    /\ cwd \in Dirs
    /\ fs_start = fs
    /\ run = 1
    /\ first_run = NoRun
    /\ \E stage \in 1..3 :
          /\ pc1 = IF stage = 1 THEN "start" ELSE "idle"
          /\ num_users \in IF stage = 1 THEN 1..MaxUsers ELSE {0}
          /\ pc2 = IF stage = 2 THEN "start" ELSE "idle"
          /\ pc3 = IF stage = 3 THEN "check" ELSE "idle"
    /\ current_date1 = 0
    /\ signup_dates = <<>>
    /\ user_i = 0
    /\ users_data = <<>>
    /\ users_df = <<>>
    /\ users_with_channel_5 = <<>>
    /\ ref_pos = 0
    /\ referrals_data = <<>>
    /\ Idle1Later
    /\ error2 = ""
    /\ Idle2Orders
    /\ Idle2Later
    /\ error3 = ""
    /\ Idle3Tables

NextMain ==
    \/ Stage1Start
    \/ SignupDay
    \/ SignupTruncate
    \/ UserRow
    \/ UsersReturn
    \/ ReferralIter
    \/ ReferralsReturn
    \/ RestaurantRow
    \/ RestaurantsReturn
    \/ MenuIter
    \/ MenuReturn
    \/ Stage1Save
    \/ Rerun1
    \/ Stage2Start
    \/ Stage2Load
    \/ Segment
    \/ DayStart
    \/ OrderIter
    \/ DayEnd
    \/ DaysDone
    \/ BotStart
    \/ BotOrderIter
    \/ BotEnd
    \/ OrdersReturn
    \/ DeliveryIter
    \/ DeliveryReturn
    \/ ReviewsSample
    \/ ReviewIter
    \/ ReviewsReturn
    \/ Stage2Save
    \/ Rerun2
    \/ Stage3Check
    \/ Stage3Start
    \/ SessionsUser
    \/ SessionIter
    \/ SessionsUserDone
    \/ SessionsReturn
    \/ CartOrderIter
    \/ CartTarget
    \/ CartAbandonedIter
    \/ CartReturn
    \/ Stage3Save
    \/ Rerun3

SpecMain == InitMain /\ [][NextMain]_vars

----------------------------------------------------------------------------
(* The three scripts run one after the other from one working directory,   *)
(* each as a process of its own, over every set of files that is there     *)
(* before Stage 1 starts.  No file is moved or copied between the runs.    *)

\* `python generate_data_02.py` once Stage 1 has completed
Launch2 ==
    /\ pc1 = "done"
    /\ pc2 = "idle"
    /\ pc2' = "start"
    /\ random_state' = Unseeded
    /\ np_random_state' = Unseeded
    /\ fs_start' = fs
    /\ UNCHANGED <<fs, cwd, runs, error2, inputs2, cohorts, tables2, loops2, later2,
                   vars1, vars3>>

\* `python generate_data_03.py` once Stage 2 has completed
Launch3 ==
    /\ pc2 = "done"
    /\ pc3 = "idle"
    /\ pc3' = "check"
    /\ random_state' = Unseeded
    /\ np_random_state' = Unseeded
    /\ fs_start' = fs
    /\ UNCHANGED <<fs, cwd, runs, error3, inputs3, sessions3, carts3, vars1, vars2>>

InitPipeline ==
    /\ random_state = Unseeded
    /\ np_random_state = Unseeded
    /\ fs \in SUBSET InputFiles
    /\ cwd \in Dirs
    /\ fs_start = fs
    /\ run = 1
    /\ first_run = NoRun
    /\ pc1 = "start"
    /\ num_users \in 1..MaxUsers
    /\ current_date1 = 0
    /\ signup_dates = <<>>
    /\ user_i = 0
    /\ users_data = <<>>
    /\ users_df = <<>>
    /\ users_with_channel_5 = <<>>
    /\ ref_pos = 0
    /\ referrals_data = <<>>
    /\ Idle1Later
    /\ Idle2
    /\ Idle3

NextPipeline ==
    \/ Stage1Start
    \/ SignupDay
    \/ SignupTruncate
    \/ UserRow
    \/ UsersReturn
    \/ ReferralIter
    \/ ReferralsReturn
    \/ RestaurantRow
    \/ RestaurantsReturn
    \/ MenuIter
    \/ MenuReturn
    \/ Stage1Save
    \/ Launch2
    \/ Stage2Start
    \/ Stage2Load
    \/ Segment
    \/ DayStart
    \/ OrderIter
    \/ DayEnd
    \/ DaysDone
    \/ BotStart
    \/ BotOrderIter
    \/ BotEnd
    \/ OrdersReturn
    \/ DeliveryIter
    \/ DeliveryReturn
    \/ ReviewsSample
    \/ ReviewIter
    \/ ReviewsReturn
    \/ Stage2Save
    \/ Launch3
    \/ Stage3Check
    \/ Stage3Start
    \/ SessionsUser
    \/ SessionIter
    \/ SessionsUserDone
    \/ SessionsReturn
    \/ CartOrderIter
    \/ CartTarget
    \/ CartAbandonedIter
    \/ CartReturn
    \/ Stage3Save

SpecPipeline == InitPipeline /\ [][NextPipeline]_vars

----------------------------------------------------------------------------
(* Claims about Stage 1.                                                   *)

UsersBuilt == pc1 \in {"referrals", "restaurants"}

\* C3: generate_users returns exactly num_users rows, UserID = 1..num_users
\* in order without gap or duplicate, every SignUpDate within
\* [start_date, end_date], also when the schedule yields fewer dates than
\* users and the rest is padded
C3_UsersDenseInRange ==
    /\ \A i \in DOMAIN users_data :
          /\ users_data[i].UserID = i
          /\ users_data[i].SignUpDate \in 0..EndDay
    /\ UsersBuilt =>
          /\ Len(users_df) = num_users
          /\ \A i \in 1..num_users : users_df[i].UserID = i
          /\ \A i \in 1..num_users : users_df[i].SignUpDate \in 0..EndDay

\* generate_users has returned for a user count whose schedule is empty, so
\* every date is a padding date, and one of them is the largest offset
C3_Witness ==
    /\ UsersBuilt
    /\ num_users >= 2
    /\ BaseSignupsPerDay(num_users) = 0
    /\ Len(signup_dates) < num_users
    /\ \E i \in 1..num_users : users_df[i].SignUpDate = DaysPerYear - 1

\* C2: every Referral row links a referrer who signed up no later than the
\* referred user, who is another user; the referred user came through the
\* 'Referral Program' channel and has one row at most; once add_referrals is
\* through, a Referral-Program user with no earlier-signed-up user has no row
\* and no ReferredBy
C2_ReferralsSound ==
    /\ \A i \in DOMAIN referrals_data :
          LET row == referrals_data[i]
              referrer == UserById(users_df, row.ReferrerUserID)
              referred == UserById(users_df, row.ReferredUserID)
          IN  /\ referrer.SignUpDate <= referred.SignUpDate
              /\ row.ReferrerUserID # row.ReferredUserID
              /\ channels_df[referred.AcquisitionChannelID].ChannelName = "Referral Program"
              /\ referred.AcquisitionChannelID = 5
              /\ \A j \in DOMAIN referrals_data :
                    referrals_data[j].ReferredUserID = row.ReferredUserID => j = i
    /\ pc1 = "restaurants" =>
          \A u \in Range(users_df) :
              ( /\ u.AcquisitionChannelID = 5
                /\ ~ \E v \in Range(users_df) : v.SignUpDate < u.SignUpDate )
              => /\ u.ReferredBy = None
                 /\ ~ \E i \in DOMAIN referrals_data :
                        referrals_data[i].ReferredUserID = u.UserID

\* add_referrals is through with one referred user linked and another
\* Referral-Program user, among the first signups, skipped
C2_Witness ==
    /\ pc1 = "restaurants"
    /\ Len(referrals_data) >= 1
    /\ \E u \in Range(users_df) :
          /\ u.AcquisitionChannelID = 5
          /\ u.ReferredBy = None
          /\ ~ \E v \in Range(users_df) : v.SignUpDate < u.SignUpDate

----------------------------------------------------------------------------
(* Claims about generate_orders.                                           *)

\* order_items_df[order_items_df['OrderID'] == id]
ItemsOfOrder(items, id) ==
    LET Of(row) == row.OrderID = id
    IN  SelectSeq(items, Of)

IsBotOrder(o) == o.UserID \in Range(bot_users)

\* C4: every OrderItem row, of the order loop and of the bot pass, has
\* Subtotal = Quantity x ItemPrice, and the Subtotals of the rows of an order
\* add up to the order's TotalAmount (rounded to 2 decimals)
C4_SubtotalsAddUp ==
    /\ \A i \in DOMAIN order_items_data :
          order_items_data[i].Subtotal =
              order_items_data[i].Quantity * order_items_data[i].ItemPrice
    /\ \A i \in DOMAIN orders_data :
          Round2(SumSubtotals(ItemsOfOrder(order_items_data, orders_data[i].OrderID)))
              = orders_data[i].TotalAmount

\* an order of two lines, one of them with quantity 2, and an order of a bot
C4_Witness ==
    /\ \E i \in DOMAIN orders_data :
          LET lines == ItemsOfOrder(order_items_data, orders_data[i].OrderID)
          IN  /\ ~IsBotOrder(orders_data[i])
              /\ Len(lines) = 2
              /\ \E k \in DOMAIN lines : lines[k].Quantity = 2
    /\ \E i \in DOMAIN orders_data : IsBotOrder(orders_data[i])

\* C5: every Order row, of the order loop and of the bot pass, has
\* FinalAmount = round(TotalAmount + DeliveryFee - DiscountAmount, 2), and a
\* DiscountAmount other than 0 only when its item subtotal exceeds 500
C5_FinalAmount ==
    \A i \in DOMAIN orders_data :
        LET o == orders_data[i]
        IN  /\ o.FinalAmount = Round2(o.TotalAmount + o.DeliveryFee - o.DiscountAmount)
            /\ o.DiscountAmount # 0 =>
                  SumSubtotals(ItemsOfOrder(order_items_data, o.OrderID)) > 50000

\* an order with a delivery fee and a discount, an order above 500 without
\* discount, and an order of a bot
C5_Witness ==
    /\ \E i \in DOMAIN orders_data :
          /\ orders_data[i].DeliveryFee > 0
          /\ orders_data[i].DiscountAmount > 0
    /\ \E i \in DOMAIN orders_data : IsBotOrder(orders_data[i])

\* C10: an empty candidate set never aborts the run: no stage ends in the
\* exception of a sample from an empty set of restaurants
C10_EmptyCandidateSetNeverAborts ==
    pc2 = "crashed" => error2 # "ValueError: city_restaurants.sample(1)"

----------------------------------------------------------------------------
(* Stage 2: what generate_delivery_tracking guarantees.                    *)

TrackingRowsOf(order) ==
    LET Tracks(d) == d.OrderID = order.OrderID
    IN  SelectSeq(delivery_data, Tracks)

TrackingBuilt == pc2 = "reviews_sample"

\* the orders the loop has gone through
Tracked(i) == TrackingBuilt \/ i < delivery_pos

\* C1: over any orders table, every tracking row is the row of a Delivered
\* order (DeliveryID = OrderID) and has ActualDeliveryTime >= DispatchTime >=
\* the order's OrderTime; once the builder has passed an order, a Delivered
\* order has exactly one tracking row and a Cancelled order has none.
C1_TrackingRows ==
    /\ \A k \in 1..Len(delivery_data) :
          LET d == delivery_data[k]
          IN  /\ d.DeliveryID = d.OrderID
              /\ \E i \in 1..Len(orders_df) :
                    /\ orders_df[i].OrderID = d.OrderID
                    /\ orders_df[i].OrderStatus = "Delivered"
                    /\ d.DispatchTime >= orders_df[i].OrderTime
              /\ d.ActualDeliveryTime >= d.DispatchTime
    /\ \A i \in 1..Len(orders_df) :
          LET rows == Len(TrackingRowsOf(orders_df[i]))
          IN  /\ orders_df[i].OrderStatus = "Cancelled" => rows = 0
              /\ orders_df[i].OrderStatus = "Delivered" =>
                    rows = IF Tracked(i) THEN 1 ELSE 0

\* the builder has returned the rows of a table with a Cancelled order, a
\* Delivered order delivered before its estimate and a Delivered outlier
C1_Witness ==
    /\ TrackingBuilt
    /\ \E i \in 1..Len(orders_df) : orders_df[i].OrderStatus = "Cancelled"
    /\ \E k \in 1..Len(delivery_data) :
          delivery_data[k].ActualDeliveryTime < delivery_data[k].EstimatedDeliveryTime
    /\ \E k \in 1..Len(delivery_data) :
          delivery_data[k].ActualDeliveryMinutes >= OutlierMinutes[1]

----------------------------------------------------------------------------
(* Stage 2: what generate_reviews guarantees.                              *)

ReviewsBuilt == pc2 = "save"

----------------------------------------------------------------------------
(* Stage 3: what generate_cart_items guarantees.                           *)

OrderedCartRows ==
    LET Ordered(c) == c.IsOrdered
    IN  SelectSeq(cart, Ordered)

AbandonedCartRows ==
    LET Abandoned(c) == ~c.IsOrdered
    IN  SelectSeq(cart, Abandoned)

\* the order a line belongs to
UserOrderOf(line) ==
    LET Mine(o) == o.OrderID = line.OrderID
    IN  Head(SelectSeq(orders_df3, Mine))

\* the loop over the orders is over and generate_cart_items has not failed
CartOrdersDone == pc3 \in {"cart_abandoned", "save"}

\* C6: once generate_cart_items has gone through the orders, the cart rows
\* with IsOrdered = true are as many as the order lines; every order line
\* has exactly one such row with its OrderID and MenuID, and that row has
\* the line's Quantity and the order's UserID and RestaurantID; a row with
\* IsOrdered = false has no OrderID.
C6_CartMirrorsOrderLines ==
    /\ CartOrdersDone =>
          /\ Len(OrderedCartRows) = Len(order_items_df3)
          /\ \A i \in 1..Len(order_items_df3) :
                LET line == order_items_df3[i]
                    order == UserOrderOf(line)
                    rows == { k \in 1..Len(cart) :
                                /\ cart[k].IsOrdered
                                /\ cart[k].OrderID = line.OrderID
                                /\ cart[k].MenuID = line.MenuID }
                IN  /\ Cardinality(rows) = 1
                    /\ \A k \in rows :
                          /\ cart[k].Quantity = line.Quantity
                          /\ cart[k].UserID = order.UserID
                          /\ cart[k].RestaurantID = order.RestaurantID
    /\ \A k \in 1..Len(cart) : ~cart[k].IsOrdered => cart[k].OrderID = None

\* generate_cart_items has returned the cart of several orders, one of them
\* with two lines, with an abandoned row and after a skipped attempt
C6_Witness ==
    /\ pc3 = "save"
    /\ Len(orders_df3) >= 2
    /\ Len(order_items_df3) > Len(orders_df3)
    /\ Len(AbandonedCartRows) >= 1
    /\ Len(AbandonedCartRows) < TargetAbandoned(Len(OrderedCartRows))

----------------------------------------------------------------------------
(* The scripts: missing input files, and a second run.                     *)

\* a file Stage 2 reads was not there when the run started
MissingInput2 == \E k \in 1..Len(MasterFiles) : ~Exists(fs_start, CSV_DIR, MasterFiles[k])

\* a file Stage 3 reads was not there when the run started
MissingInput3 ==
    \/ MissingInput2
    \/ \E k \in 1..Len(TxnFiles) : ~Exists(fs_start, BASE_DIR, TxnFiles[k])

\* no draw has been made from the generators
NothingDrawn ==
    /\ random_state \in {Unseeded, Seeded(SeedValue)}
    /\ np_random_state \in {Unseeded, Seeded(SeedValue)}

\* C9: a run of Stage 2 without one of users.csv, restaurants.csv, menu.csv,
\* or of Stage 3 without one of these or of orders.csv, order_items.csv,
\* never gets past its reads: it ends in FileNotFoundError with no table
\* generated, no draw made and every file as the run found it.
C9_MissingInputHalts ==
    /\ (pc2 # "idle" /\ MissingInput2) =>
          /\ pc2 \in {"start", "load", "crashed"}
          /\ pc2 = "crashed" => error2 = "FileNotFoundError"
          /\ power_users = <<>> /\ weekend_users = <<>>
          /\ bot_users = <<>> /\ regular_users = <<>>
          /\ orders_data = <<>> /\ order_items_data = <<>>
          /\ delivery_data = <<>> /\ reviews_data = <<>>
          /\ NothingDrawn
          /\ fs = fs_start
    /\ (pc3 # "idle" /\ MissingInput3) =>
          /\ pc3 \in {"check", "crashed"}
          /\ pc3 = "crashed" => error3 = "FileNotFoundError"
          /\ sessions = <<>> /\ cart = <<>>
          /\ NothingDrawn
          /\ fs = fs_start

\* Stage 2, started in the directory that holds an orders.csv and without
\* menu.csv, has ended in FileNotFoundError
C9_Witness ==
    /\ pc2 = "crashed"
    /\ error2 = "FileNotFoundError"
    /\ ~Exists(fs_start, CSV_DIR, "menu.csv")
    /\ Exists(fs_start, CSV_DIR, "users.csv")
    /\ Exists(fs_start, CSV_DIR, "restaurants.csv")
    /\ Exists(fs, cwd, "orders.csv")

\* the stage under way has run to completion a second time
SecondRunDone == run = 2 /\ (pc1 = "done" \/ pc2 = "done" \/ pc3 = "done")

----------------------------------------------------------------------------
(* The three scripts in a row.                                             *)

\* Stage 2 has read its input files
Stage2Loaded == pc2 \notin {"idle", "start", "load", "crashed"} \/
                (pc2 = "crashed" /\ users_df2 # <<>>)

\* Stage 3 has read its input files
Stage3Loaded == pc3 \notin {"idle", "check", "start", "crashed"} \/
                (pc3 = "crashed" /\ users_df3 # <<>>)

\* C11: run in a row from one working directory, Stage 2 finds its input
\* files and reads the users, restaurants and menu tables Stage 1 wrote, and
\* Stage 3 finds its input files and reads the orders and order_items tables
\* Stage 2 wrote.
C11_StagesChainThroughFiles ==
    /\ pc2 = "crashed" => error2 # "FileNotFoundError"
    /\ pc3 = "crashed" => error3 # "FileNotFoundError"
    /\ Stage2Loaded =>
          /\ users_df2 = users_df
          /\ restaurants_df2 = restaurants_data
          /\ menu_df2 = menu_data
    /\ Stage3Loaded =>
          /\ orders_df3 = orders_df
          /\ order_items_df3 = order_items_df

----------------------------------------------------------------------------
(* Stage 2: the bot pass.                                                  *)

OrdersOfUser(user_id) ==
    LET Mine(o) == o.UserID = user_id
    IN  SelectSeq(orders_data, Mine)

OrdersReturned == pc2 = "delivery"

\* C12: once generate_orders has returned, every bot user of the injection
\* (the first HeavyBots of the bot cohort) has between BurstMin and BurstMax
\* orders, all on one day, each with a single line of quantity 1, no
\* delivery fee, no discount, status Delivered and payment by UPI.
C12_BotBursts ==
    OrdersReturned =>
        \A b \in 1..Len(Take(bot_users, HeavyBots)) :
            LET burst == OrdersOfUser(bot_users[b])
            IN  /\ Len(burst) >= BurstMin
                /\ Len(burst) <= BurstMax
                /\ \A k \in 1..Len(burst) :
                      /\ burst[k].OrderDate = burst[1].OrderDate
                      /\ burst[k].DeliveryFee = 0
                      /\ burst[k].DiscountAmount = 0
                      /\ burst[k].OrderStatus = "Delivered"
                      /\ burst[k].PaymentMethod = "UPI"
                      /\ LET items == ItemsOfOrder(order_items_data, burst[k].OrderID)
                         IN  Len(items) = 1 /\ items[1].Quantity = 1

----------------------------------------------------------------------------
(* Stage 2: the user cohorts.                                              *)

Segmented == pc2 # "segment"

\* C13: for every users table of one user or more, segmentation completes
\* and leaves four pairwise disjoint cohorts (power, weekend-only, bot,
\* regular) whose union is the whole user set, with floor(20% n) power
\* users, floor(15% n) weekend-only users and the configured number of bots.
C13_CohortsPartitionUsers ==
    (Segmented /\ Len(users_df2) >= 1) =>
        LET n == Len(users_df2)
            all == power_users \o weekend_users \o bot_users \o regular_users
        IN  /\ error2 # "ValueError: sample(n=num_bot_users)"
            /\ Len(all) = n
            /\ Range(all) = Range(UserIDs(users_df2))
            /\ Len(power_users) = (n * config2.power_user_percentage) \div 100
            /\ Len(weekend_users) = (n * config2.weekend_only_user_percentage) \div 100
            /\ Len(bot_users) = config2.bot_users_count

----------------------------------------------------------------------------
(* Stage 2: the orders of a day.                                           *)

\* growth_factor = 1 + (months_passed * 0.03) of generate_users, in
\* hundredths, with months_passed = days // 30
GrowthFactor(day) == 100 + 3 * (day \div DaysPerMonth)

\* 1.4 on Saturday and Sunday, in tenths
WeekendBoost(cfg, d) == IF IsWeekend(cfg, d) THEN 14 ELSE 10

\* C14 as stated: the order loop of day d runs int(baseline * g(d) * w(d))
\* times, with baseline = target_total_orders / 365, w(d) = 1.4 on a weekend
\* day and 1 otherwise, and g(d) the growth factor of Stage 1's signups,
\* 1 + 0.03 for each whole month since the start date.
C14_TargetGrowsByWholeMonths ==
    [][DayStart =>
          iter_left' = (config2.target_total_orders * WeekendBoost(config2, current_date2)
                           * GrowthFactor(current_date2)) \div (DaysPerYear * 10 * 100)]_vars

\* C14, amended: the order loop of day d runs int(baseline * g(d) * w(d))
\* times with g(d) = 1 + 0.03 * d / 30, the days since the start date
\* divided by 30 and not truncated to whole months: daily_orders is the
\* largest integer n with
\* n * 365 * 10 * 100 * 30 <= target * w(d) * (100 * 30 + 3 * d).
C14_TargetGrowsByDays ==
    [][DayStart =>
          LET scale == DaysPerYear * 10 * 100 * DaysPerMonth
              exact == config2.target_total_orders * WeekendBoost(config2, current_date2)
                           * (100 * DaysPerMonth + 3 * current_date2)
          IN  /\ iter_left' * scale <= exact
              /\ exact < (iter_left' + 1) * scale]_vars

\* a weekend day after the first has begun, with more orders than the
\* weekend's share of the baseline
C14_Witness ==
    /\ pc2 = "orders"
    /\ current_date2 > 0
    /\ IsWeekend(config2, current_date2)
    /\ iter_left > (config2.target_total_orders * 14) \div (DaysPerYear * 10)

----------------------------------------------------------------------------
(* Stage 2: the restaurant and the lines of an order.                      *)

\* the day loop of generate_orders is running: every order so far comes
\* from it
InOrderLoop == pc2 \in {"day", "orders"}

RestaurantById(df, id) ==
    LET Match(r) == r.RestaurantID = id
    IN  Head(SelectSeq(df, Match))

MenuById(df, id) ==
    LET Match(m) == m.MenuID = id
    IN  Head(SelectSeq(df, Match))

ActiveIn(city) ==
    {r \in Range(restaurants_df2) : r.IsActive /\ r.CityID = city}

----------------------------------------------------------------------------
(* Stage 2: the identifiers of orders and lines.                           *)

RECURSIVE LoopIterations(_, _)
\* the iterations of the order loop over the days 0..d
LoopIterations(cfg, d) ==
    IF d < 0 THEN 0 ELSE DailyOrders(cfg, d) + LoopIterations(cfg, d - 1)

OrderIDs(df) == {df[k].OrderID : k \in 1..Len(df)}

\* C16: in the tables generate_orders returns, the OrderIDs are exactly
\* 1..N for N orders and the OrderItemIDs exactly 1..M for M lines, whatever
\* the number of iterations skipped for want of a menu; every line belongs
\* to an order of the table and every order has a line.
C16_DenseIdentifiers ==
    OrdersReturned =>
        /\ OrderIDs(orders_df) = 1..Len(orders_df)
        /\ {order_items_df[k].OrderItemID : k \in 1..Len(order_items_df)}
              = 1..Len(order_items_df)
        /\ \A k \in 1..Len(order_items_df) :
              order_items_df[k].OrderID \in OrderIDs(orders_df)
        /\ \A k \in 1..Len(orders_df) :
              ItemsOfOrder(order_items_df, orders_df[k].OrderID) # <<>>

\* orders of both passes are returned although the day loop has skipped an
\* iteration: it made fewer orders than it ran iterations
C16_Witness ==
    /\ OrdersReturned
    /\ \E k \in 1..Len(orders_df) : ~IsBotOrder(orders_df[k])
    /\ \E k \in 1..Len(orders_df) : IsBotOrder(orders_df[k])
    /\ LET FromLoop(o) == ~IsBotOrder(o)
       IN  Len(SelectSeq(orders_df, FromLoop)) < LoopIterations(config2, config2.end_day)

----------------------------------------------------------------------------
(* generate_user_sessions for two users, one signed up on the first day    *)
(* and one on the last, on each table of at most two of their orders, the  *)
(* generators in an arbitrary state.                                       *)

SessionUsers == <<User(1, 1), [User(2, 1) EXCEPT !.SignUpDate = EndDay]>>

\* what an order of the tables can be: an order of user 1 in the first
\* minute of the first day, 30 or 31 minutes later, or half an hour into the
\* last day, or an order of user 2 at that time
SessionOrderKinds ==
    {<<1, 0>>, <<1, 30>>, <<1, 31>>, <<1, EndDay * MinutesPerDay + 30>>,
     <<2, EndDay * MinutesPerDay + 30>>}

SessionOrder(id, kind) ==
    [OrderRow(id, "Delivered", kind[2]) EXCEPT !.UserID = kind[1]]

SessionOrderTables ==
    {<<>>}
    \cup {<<SessionOrder(1, a)>> : a \in SessionOrderKinds}
    \cup {<<SessionOrder(1, a), SessionOrder(2, b)>> : a, b \in SessionOrderKinds}

InitSessions ==
    /\ random_state = Unseeded
    /\ np_random_state = Unseeded
    /\ Idle1
    /\ Idle2
    /\ NoFiles
    /\ pc3 = "sessions"
    /\ error3 = ""
    /\ users_df3 = SessionUsers
    /\ restaurants_df3 = <<>>
    /\ menu_df3 = <<>>
    /\ orders_df3 \in SessionOrderTables
    /\ order_items_df3 = <<>>
    /\ session_pos = 1
    /\ sessions_left = 0
    /\ sessions = <<>>
    /\ cart_pos = 0
    /\ abandoned_left = 0
    /\ cart = <<>>

NextSessions ==
    \/ SessionsUser
    \/ SessionIter
    \/ SessionsUserDone
    \/ SessionsReturn

SpecSessions == InitSessions /\ [][NextSessions]_vars

\* the rows of orders_df of the session's user with OrderTime within
\* [SessionStart, SessionEnd]
MatchingRows(session) ==
    {k \in 1..Len(orders_df3) :
        /\ orders_df3[k].UserID = session.UserID
        /\ orders_df3[k].OrderTime >= session.SessionStart
        /\ orders_df3[k].OrderTime <= session.SessionEnd}

FirstRow(rows) == CHOOSE k \in rows : \A other \in rows : k <= other

\* C17: a session has OrderPlaced exactly when an order of its user has its
\* OrderTime within [SessionStart, SessionEnd]; its OrderID is then that of
\* the first such order of the table, and is empty otherwise.
C17_SessionOrderAttribution ==
    \A i \in 1..Len(sessions) :
        LET session == sessions[i]
            rows == MatchingRows(session)
        IN  /\ session.OrderPlaced <=> rows # {}
            /\ rows # {} => session.OrderID = orders_df3[FirstRow(rows)].OrderID
            /\ rows = {} => session.OrderID = None

\* two sessions carry the same order, which is the second of two orders in
\* the table, and a third session carries none
C17_Witness ==
    /\ \E i, j \in 1..Len(sessions) :
          /\ i # j
          /\ sessions[i].OrderPlaced
          /\ sessions[j].OrderPlaced
          /\ sessions[i].OrderID = sessions[j].OrderID
          /\ sessions[i].OrderID = 2
    /\ \E i \in 1..Len(sessions) : ~sessions[i].OrderPlaced

----------------------------------------------------------------------------
(* Stage 2: who orders on which day.                                       *)

\* Saturday or Sunday, Monday being 0
OnSaturdayOrSunday(order) ==
    (config2.start_weekday + order.OrderDate) % 7 \in {5, 6}

\* C18: no weekend-only user has an order on a weekday: an order of the day
\* loop on a weekday is of a power or regular user, one on a weekend day of
\* a power, weekend-only or regular user, and the orders of bot users all
\* come from the bot pass.
C18_CohortsOrderOnTheirDays ==
    \A k \in 1..Len(orders_data) :
        LET order == orders_data[k]
            buyer == order.UserID
        IN  /\ buyer \in Range(weekend_users) => OnSaturdayOrSunday(order)
            /\ InOrderLoop => buyer \notin Range(bot_users)
            /\ buyer \notin Range(bot_users) =>
                  IF OnSaturdayOrSunday(order)
                  THEN buyer \in Range(power_users) \cup Range(weekend_users)
                                   \cup Range(regular_users)
                  ELSE buyer \in Range(power_users) \cup Range(regular_users)

\* a weekday order, a weekend order of a weekend-only user and an order of
\* a bot
C18_Witness ==
    /\ \E k \in 1..Len(orders_data) :
          /\ ~OnSaturdayOrSunday(orders_data[k])
          /\ ~IsBotOrder(orders_data[k])
    /\ \E k \in 1..Len(orders_data) :
          /\ orders_data[k].UserID \in Range(weekend_users)
          /\ OnSaturdayOrSunday(orders_data[k])
    /\ \E k \in 1..Len(orders_data) : IsBotOrder(orders_data[k])

====
